---------------------------- MODULE Spec2Model ----------------------------
(***************************************************************************)
(* Streets and Alleys solver (brettlyne/cards).                            *)
(*                                                                         *)
(* Part 1: go_solver/solver.go, the worker-pool solver on CompactState     *)
(* strings.  A Go string is modelled as a sequence of byte values.         *)
(***************************************************************************)
EXTENDS Integers, Sequences, FiniteSets, TLC

VARIABLES
    cstate,         \* SpecNext: the CompactState under expansion
    steps,          \* SpecNext: NextStates applications made so far
    gstate,         \* SpecSolved: the GameState handed to ToCompact
    verdict,        \* SpecSolved: what isSolution returned ("none" before the call)
    stateHistory,   \* the global sync.Map stateHistory: state hash -> *StateHistory
    tpc,            \* tryAddState: where each caller stands in the call
    targs,          \* tryAddState: each caller's arguments
    texisting,      \* tryAddState: the pointer each caller loaded
    tret,           \* tryAddState: each caller's return value ("none" before it returns)
    game,           \* SpecCodec: the StreetsGame rows, each row its cards from column 0
    orig,           \* SpecCodec: the game as it was before its rows were exchanged
    nmoves,         \* SpecCodec: moves applied since the deal
    nswaps,         \* SpecCodec: row exchanges made
    slots,          \* worker pool: len(workerStates), the number of worker slots
    initial,        \* worker pool: compactInitial, the CompactState of the deal
    mainpc,         \* worker pool: where main stands
    waiterpc,       \* worker pool: where the goroutine of wg.Wait() stands
    wg,             \* worker pool: the WaitGroup counter
    wpc,            \* worker pool: where the worker of each slot stands
    queue,          \* worker pool: the PriorityQueue of each slot
    current,        \* worker pool: the StateItem each worker holds (item)
    results,        \* worker pool: the buffered channel results
    ctxDone,        \* worker pool: whether cancel() has run, closing ctx.Done()
    report,         \* worker pool: the outcome main has printed ("none" before)
    pathParent,     \* JS worker: the Map pathParent, state -> parent state or null
    gameQueue,      \* JS worker: the states of gameQueue with their buckets, in push order
    workerId,       \* JS worker: workerId (0 before the init message)
    iterations,     \* JS worker: iterations
    timeout,        \* JS worker: whether the init message carried a timeout
    jspc,           \* JS worker: where the worker stands
    posted,         \* JS worker: the messages posted, but for the log and progress ones
    chain,          \* SpecPath: the states s0, s1, .. recorded each with its predecessor
    rpath,          \* SpecPath: what reconstructPath returned
    rpc,            \* SpecPath: "ready", then how the call of reconstructPath ended
    hashInput,      \* SpecDecode: the string handed to StreetsGame.FromHash
    decoded,        \* SpecDecode: what FromHash returned: the error and the rows
    dpc,            \* SpecDecode: "ready" before the call of FromHash, "decoded" after
    mgame,          \* SpecMoves: the game whose moves are generated
    goNext,         \* SpecMoves: what CompactState.NextStates returned
    jsNext,         \* SpecMoves: what nextSolverStates returned
    mpc,            \* SpecMoves: "ready" before the two calls, "generated" after
    qside,          \* SpecQueue: which queue the run exercises, "js" or "go"
    queues,         \* SpecQueue: BaseQueue.queues, the 100 buckets
    size,           \* SpecQueue: BaseQueue.size
    jsPopped,       \* SpecQueue: what the last BaseQueue.pop returned
    pq,             \* SpecQueue: the PriorityQueue of a WorkerState, as a heap array
    goPopped,       \* SpecQueue: what the last getNextState returned
    wsQueue,        \* SpecSteal: workerStates[i].queue of each slot, as a heap array
    wsLock,         \* SpecSteal: workerStates[i].lock: the goroutine holding it, 0 if free
    routine,        \* SpecSteal: each worker goroutine: its id, where it stands, its locals
    wgCount,        \* SpecSteal: the WaitGroup counter
    made,           \* SpecSteal: StateItems created so far
    procQueue,      \* SpecProcess: the queue of the worker, as a heap array
    procCurrent,    \* SpecProcess: the StateItem the worker popped (item)
    procNext,       \* SpecProcess: the states of nextStates still to be offered
    procPc,         \* SpecProcess: where the worker stands
    jcard,          \* SpecCard: the card of cardDeck handed to cardToSolver
    jcoded,         \* SpecCard: the code of the card and what the code converts back to
    board,          \* SpecFill: Rows, each row its 19 slots
    berr,           \* SpecFill: the error the last applyMove returned
    bself,          \* SpecFill: the game applyMove was last called on, as it is after the call
    bmoves,         \* SpecFill: moves applied to the deal
    pwParent,       \* SpecPw: pathParent of isProbablyWinnable
    pwQueue,        \* SpecPw: gameQueue: the states pushed, each with the index of its bucket
    pwCur,          \* SpecPw: solverStr, the state popped (the dealt state before the first push)
    pwNext,         \* SpecPw: the states of nextStates not yet visited by the forEach
    pwpc,           \* SpecPw: where isProbablyWinnable stands, or how it ended
    pwIter,         \* SpecPw: iterations
    pwScore,        \* SpecPw: the score the last push computed
    mctsGame,       \* SpecMcts: game, the layout FromString parsed
    mctsState,      \* SpecMcts: currentState of main
    mctsTree,       \* SpecMcts: the nodes reachable from rootNode, the root first; Parent 0 is nil
    mctsIter,       \* SpecMcts: i, the runMCTS calls made on this root
    mctsMoves,      \* SpecMcts: moves, the list main logs
    mctsRoll,       \* SpecMcts: what the last runMCTS did: the leaf selected, the node and the path hashes the rollout started with, and the rollout
    mctspc          \* SpecMcts: where main stands

varsNext == <<cstate, steps>>
varsSolved == <<gstate, verdict>>
varsStore == <<stateHistory, tpc, targs, texisting, tret>>
varsCodec == <<game, orig, nmoves, nswaps>>
varsPool == <<slots, initial, mainpc, waiterpc, wg, wpc, queue, current, results,
              ctxDone, report>>
varsJs == <<pathParent, gameQueue, workerId, iterations, timeout, jspc, posted>>
varsPath == <<chain, rpath, rpc>>
varsDecode == <<hashInput, decoded, dpc>>
varsMoves == <<mgame, goNext, jsNext, mpc>>
varsQueue == <<qside, queues, size, jsPopped, pq, goPopped>>
varsSteal == <<wsQueue, wsLock, routine, wgCount, made>>
varsProcess == <<procQueue, procCurrent, procNext, procPc>>
varsCard == <<jcard, jcoded>>
varsFill == <<board, berr, bself, bmoves>>
varsPw == <<pwParent, pwQueue, pwCur, pwNext, pwpc, pwIter, pwScore>>
varsMcts == <<mctsGame, mctsState, mctsTree, mctsIter, mctsMoves, mctsRoll, mctspc>>
vars == <<cstate, steps, gstate, verdict, stateHistory, tpc, targs, texisting, tret,
          game, orig, nmoves, nswaps, slots, initial, mainpc, waiterpc, wg, wpc, queue,
          current, results, ctxDone, report, pathParent, gameQueue, workerId,
          iterations, timeout, jspc, posted, chain, rpath, rpc, hashInput, decoded,
          dpc, mgame, goNext, jsNext, mpc, qside, queues, size, jsPopped, pq,
          goPopped, wsQueue, wsLock, routine, wgCount, made, procQueue,
          procCurrent, procNext, procPc, jcard, jcoded, board, berr, bself, bmoves, pwParent, pwQueue, pwCur, pwNext, pwpc, pwIter, pwScore, mctsGame, mctsState, mctsTree, mctsIter, mctsMoves, mctsRoll, mctspc>>

(***************************************************************************)
(* Bounds of the model.                                                    *)
(***************************************************************************)
NumDeals == 8       \* initial deals drawn: Deal(0) .. Deal(NumDeals-1)
MaxSteps == 2       \* NextStates applications explored from a deal

(***************************************************************************)
(* Strings.                                                                *)
(***************************************************************************)
ByteA == 65
Underscore == 95
Pipe == 124

\* the positions of s holding the byte sep
SepPositions(s, sep) == {i \in 1..Len(s) : s[i] = sep}

\* the position of the k-th separator; 0 before the first, Len(s)+1 past the last
SepAt(s, sep, k) ==
    LET P == SepPositions(s, sep)
    IN  IF k = 0 THEN 0
        ELSE IF k > Cardinality(P) THEN Len(s) + 1
        ELSE CHOOSE p \in P : Cardinality({q \in P : q < p}) = k - 1

\* strings.Split(s, sep) for a one-byte separator
Split(s, sep) ==
    [k \in 1..(Cardinality(SepPositions(s, sep)) + 1) |->
        SubSeq(s, SepAt(s, sep, k - 1) + 1, SepAt(s, sep, k) - 1)]

RECURSIVE Join(_, _)
\* strings.Join(list, sep)
Join(list, sep) ==
    IF Len(list) = 0 THEN <<>>
    ELSE IF Len(list) = 1 THEN list[1]
    ELSE list[1] \o <<sep>> \o Join(Tail(list), sep)

Last(s) == s[Len(s)]
Front(s) == SubSeq(s, 1, Len(s) - 1)

(***************************************************************************)
(* Cards and the compact encoding.                                         *)
(***************************************************************************)
values == <<"A", "2", "3", "4", "5", "6", "7", "8", "9", "10", "J", "Q", "K">>
suits == <<"H", "D", "C", "S">>

valueMap == [v \in {values[i] : i \in 1..13} |->
                (CHOOSE i \in 1..13 : values[i] = v) - 1]
suitOffset == ("H" :> 0) @@ ("D" :> 13) @@ ("C" :> 26) @@ ("S" :> 39)

cardToSolver(card) == (ByteA + valueMap[card.Value] + suitOffset[card.Suit]) % 256

\* the deck in the order main builds it: suit by suit, Ace to King
deck == [i \in 1..52 |->
            [Value |-> values[((i - 1) % 13) + 1], Suit |-> suits[((i - 1) \div 13) + 1]]]

getSolverValue(card) == ((card - ByteA) % 256) % 13
getSolverSuit(card) == ((card - ByteA) % 256) \div 13

\* targetCard = 0 is Go's zero byte: the target row is empty
canMoveSolver(card, targetCard) ==
    IF targetCard = 0 THEN TRUE
    ELSE getSolverValue(targetCard) = getSolverValue(card) + 1

canMoveToFoundationSolver(card, foundation) ==
    IF Len(foundation) = 0 THEN getSolverValue(card) = 0
    ELSE getSolverSuit(card) = getSolverSuit(Last(foundation))
         /\ getSolverValue(card) = getSolverValue(Last(foundation)) + 1

RowString(row) == [j \in 1..Len(row) |-> cardToSolver(row[j])]

SelectNonEmpty(list) == SelectSeq(list, LAMBDA x : Len(x) > 0)

ToCompact(state) ==
    LET rows == [i \in 1..Len(state.Rows) |-> RowString(state.Rows[i])]
        foundations == SelectNonEmpty(
                          [i \in 1..Len(state.Foundation) |-> RowString(state.Foundation[i])])
        result == Join(rows, Pipe)
    IN  IF Len(foundations) > 0
        THEN result \o <<Underscore>> \o Join(foundations, Underscore)
        ELSE result

(***************************************************************************)
(* The deal of main: a shuffled deck dealt into 8 rows of 7 and 6 cards.   *)
(* rand.Shuffle may produce any permutation; the model draws the           *)
(* permutations i -> (k+1) * i mod 53 of the deck positions 1..52.         *)
(***************************************************************************)
Shuffled(k) == [i \in 1..52 |-> deck[(((k % 52) + 1) * i) % 53]]

cardsInRow(i) == IF i % 2 = 1 THEN 6 ELSE 7    \* i is the 0-based row index

RECURSIVE RowStart(_)
RowStart(i) == IF i = 0 THEN 0 ELSE RowStart(i - 1) + cardsInRow(i - 1)

Deal(k) ==
    [Rows |-> [r \in 1..8 |->
                  [j \in 1..cardsInRow(r - 1) |-> Shuffled(k)[RowStart(r - 1) + j]]],
     Foundation |-> <<>>]

(***************************************************************************)
(* CompactState.NextStates                                                 *)
(***************************************************************************)
PadTo4(foundations) ==
    foundations \o [i \in 1..(IF Len(foundations) < 4 THEN 4 - Len(foundations) ELSE 0) |-> <<>>]

ParseParts(state) == Split(state, Underscore)
ParseRows(state) == Split(ParseParts(state)[1], Pipe)
ParseFoundations(state) ==
    LET parts == ParseParts(state)
    IN  PadTo4(IF Len(parts) > 1 THEN Split(parts[2], Underscore) ELSE <<>>)

FoundationMove(rows, foundations, fromRow, suit) ==
    LET card == Last(rows[fromRow])
        newRows == [rows EXCEPT ![fromRow] = Front(rows[fromRow])]
        newFoundations == [foundations EXCEPT ![suit] = Append(foundations[suit], card)]
        foundationStr == Join(newFoundations, Underscore)
    IN  IF Len(foundationStr) # 0
        THEN Join(newRows, Pipe) \o <<Underscore>> \o foundationStr
        ELSE Join(newRows, Pipe)

RowMove(parts, rows, fromRow, toRow) ==
    LET card == Last(rows[fromRow])
        newRows == [rows EXCEPT ![fromRow] = Front(rows[fromRow]),
                                ![toRow] = Append(rows[toRow], card)]
    IN  IF Len(parts) > 1
        THEN Join(newRows, Pipe) \o <<Underscore>> \o parts[2]
        ELSE Join(newRows, Pipe)

\* the first loop nest of NextStates, fromRow outer, suit inner
FoundationMoves(rows, foundations) ==
    LET m == Len(foundations)
        pairs == [idx \in 1..(Len(rows) * m) |-> <<((idx - 1) \div m) + 1, ((idx - 1) % m) + 1>>]
        legal == SelectSeq(pairs, LAMBDA p :
                    /\ Len(rows[p[1]]) # 0
                    /\ canMoveToFoundationSolver(Last(rows[p[1]]), foundations[p[2]]))
    IN  [i \in 1..Len(legal) |-> FoundationMove(rows, foundations, legal[i][1], legal[i][2])]

\* the second loop nest of NextStates, fromRow outer, toRow inner
RowMoves(parts, rows) ==
    LET n == Len(rows)
        pairs == [idx \in 1..(n * n) |-> <<((idx - 1) \div n) + 1, ((idx - 1) % n) + 1>>]
        legal == SelectSeq(pairs, LAMBDA p :
                    /\ Len(rows[p[1]]) # 0
                    /\ p[1] # p[2]
                    /\ canMoveSolver(Last(rows[p[1]]),
                                     IF Len(rows[p[2]]) > 0 THEN Last(rows[p[2]]) ELSE 0))
    IN  [i \in 1..Len(legal) |-> RowMove(parts, rows, legal[i][1], legal[i][2])]

NextStates(state) ==
    LET parts == ParseParts(state)
        rows == ParseRows(state)
        foundations == ParseFoundations(state)
    IN  FoundationMoves(rows, foundations) \o RowMoves(parts, rows)

Range(s) == {s[i] : i \in DOMAIN s}

(***************************************************************************)
(* SpecNext: the states NextStates generates from a deal.                  *)
(***************************************************************************)
NoGame == [Rows |-> <<>>, Foundation |-> <<>>]
IdleSolved == gstate = NoGame /\ verdict = "none"
IdleStore ==
    /\ stateHistory = <<>>
    /\ tpc = <<>> /\ targs = <<>> /\ texisting = <<>> /\ tret = <<>>
IdleCodec == game = <<>> /\ orig = <<>> /\ nmoves = 0 /\ nswaps = 0
IdlePool ==
    /\ slots = 0 /\ initial = <<>> /\ mainpc = "none" /\ waiterpc = "none" /\ wg = 0
    /\ wpc = <<>> /\ queue = <<>> /\ current = <<>> /\ results = <<>>
    /\ ctxDone = FALSE /\ report = "none"
IdleJs ==
    /\ pathParent = <<>> /\ gameQueue = <<>> /\ workerId = 0 /\ iterations = 0
    /\ timeout = FALSE /\ jspc = "none" /\ posted = <<>>
IdlePath == chain = <<>> /\ rpath = <<>> /\ rpc = "none"
IdleDecode == hashInput = <<>> /\ decoded = <<>> /\ dpc = "none"
IdleMoves == mgame = <<>> /\ goNext = <<>> /\ jsNext = <<>> /\ mpc = "none"
IdleQueue ==
    /\ qside = "none" /\ queues = <<>> /\ size = 0 /\ jsPopped = <<>>
    /\ pq = <<>> /\ goPopped = <<>>
IdleSteal ==
    /\ wsQueue = <<>> /\ wsLock = <<>> /\ routine = <<>> /\ wgCount = 0 /\ made = 0
IdleProcess ==
    /\ procQueue = <<>> /\ procCurrent = <<>> /\ procNext = <<>> /\ procPc = "none"
IdleCard == jcard = <<>> /\ jcoded = <<>>
IdleFill == board = <<>> /\ berr = "" /\ bself = <<>> /\ bmoves = 0
IdlePw == pwParent = <<>> /\ pwQueue = <<>> /\ pwCur = <<>> /\ pwNext = <<>> /\ pwpc = "" /\ pwIter = 0 /\ pwScore = 0
IdleMcts == mctsGame = <<>> /\ mctsState = <<>> /\ mctsTree = <<>> /\ mctsIter = 0 /\ mctsMoves = <<>> /\ mctsRoll = <<>> /\ mctspc = ""

InitNext ==
    /\ \E k \in 0..(NumDeals - 1) : cstate = ToCompact(Deal(k))
    /\ steps = 0
    /\ IdleSolved /\ IdleStore /\ IdleCodec /\ IdlePool /\ IdleJs /\ IdlePath /\ IdleDecode /\ IdleMoves /\ IdleQueue /\ IdleSteal /\ IdleProcess /\ IdleCard /\ IdleFill /\ IdlePw /\ IdleMcts

Expand ==
    /\ steps < MaxSteps
    /\ \E next \in Range(NextStates(cstate)) : cstate' = next
    /\ steps' = steps + 1
    /\ UNCHANGED <<varsSolved, varsStore, varsCodec, varsPool, varsJs, varsPath, varsDecode, varsMoves, varsQueue, varsSteal, varsProcess, varsCard, varsFill, varsPw, varsMcts>>

NextNext == Expand

SpecNext == InitNext /\ [][NextNext]_vars

\* the card bytes of the deck; the byte of 5C is the byte of the separator "_"
CardBytes == {cardToSolver(deck[i]) : i \in 1..52}
Occurrences(s, b) == Cardinality({i \in 1..Len(s) : s[i] = b})

\* C1: in every state reached from a 52-card deal by applying NextStates, each
\* card occurs exactly once across the rows and the foundations.  Stated on the
\* bytes of the state string, whatever part of it they stand in, and leaving
\* out the 5 of clubs, whose byte cannot be told from the separator.
C1_CardsPartition ==
    \A b \in CardBytes \ {Underscore} : Occurrences(cstate, b) = 1

(***************************************************************************)
(* isSolution, and SpecSolved: isSolution on the compact form of a game.   *)
(***************************************************************************)
FoundationGap == 2  \* a foundation of the games drawn holds 13-FoundationGap .. 13 cards

RECURSIVE SumLen(_)
SumLen(list) == IF Len(list) = 0 THEN 0 ELSE Len(list[1]) + SumLen(Tail(list))

\* the inner loop of isSolution: the foundation string is a same-suit run rising by one
ProperlyOrdered(foundation) ==
    \A i \in 2..Len(foundation) :
        /\ getSolverSuit(foundation[i - 1]) = getSolverSuit(foundation[i])
        /\ getSolverValue(foundation[i]) = getSolverValue(foundation[i - 1]) + 1

isSolution(state) ==
    LET parts == Split(state, Underscore)
    IN  IF Len(parts) < 2 THEN FALSE
        ELSE LET rows == Split(parts[1], Pipe)
                 foundations == Split(parts[2], Underscore)
             IN  IF \E r \in 1..Len(rows) : Len(rows[r]) > 0 THEN FALSE
                 ELSE IF \E f \in 1..Len(foundations) : ~ProperlyOrdered(foundations[f])
                      THEN FALSE
                 ELSE SumLen(foundations) = 52

\* The games drawn: foundation s holds the h[s] lowest cards of suit s, and the
\* cards left of suit s lie in row s, the King at the bottom.
SuitRun(s, lo, hi) == [j \in 1..(hi - lo + 1) |-> deck[13 * (s - 1) + lo + j - 1]]
Reverse(q) == [j \in 1..Len(q) |-> q[Len(q) + 1 - j]]

GameOf(h) ==
    [Rows |-> [r \in 1..8 |-> IF r <= 4 THEN Reverse(SuitRun(r, h[r] + 1, 13)) ELSE <<>>],
     Foundation |-> [s \in 1..4 |-> SuitRun(s, 1, h[s])]]

\* every row is empty and the foundations hold the 52 cards, each foundation the
\* same-suit run from the Ace
SolvedGame(g) ==
    /\ \A r \in 1..Len(g.Rows) : Len(g.Rows[r]) = 0
    /\ Len(g.Foundation) = 4
    /\ \A s \in 1..4 : g.Foundation[s] = SuitRun(s, 1, 13)

IdleNext == cstate = <<>> /\ steps = 0

InitSolved ==
    /\ \E h \in [1..4 -> (13 - FoundationGap)..13] : gstate = GameOf(h)
    /\ verdict = "none"
    /\ IdleNext /\ IdleStore /\ IdleCodec /\ IdlePool /\ IdleJs /\ IdlePath /\ IdleDecode /\ IdleMoves /\ IdleQueue /\ IdleSteal /\ IdleProcess /\ IdleCard /\ IdleFill /\ IdlePw /\ IdleMcts

CheckSolution ==
    /\ verdict = "none"
    /\ verdict' = IF isSolution(ToCompact(gstate)) THEN "true" ELSE "false"
    /\ UNCHANGED <<gstate, varsNext, varsStore, varsCodec, varsPool, varsJs, varsPath, varsDecode, varsMoves, varsQueue, varsSteal, varsProcess, varsCard, varsFill, varsPw, varsMcts>>

NextSolved == CheckSolution

SpecSolved == InitSolved /\ [][NextSolved]_vars

\* C7: isSolution returns true exactly for the states in which every row is
\* empty and the foundations together hold all 52 cards, each foundation a
\* same-suit sequence rising by one from the Ace.
C7_IsSolutionExact ==
    verdict # "none" => (verdict = "true" <=> SolvedGame(gstate))

(***************************************************************************)
(* stateHistory and tryAddState.                                           *)
(*                                                                         *)
(* stateHistory is a sync.Map from CompactState.Hash() to *StateHistory.   *)
(* The 64-bit FNV-1a digest is beyond TLC's integers; the map is keyed by  *)
(* the state string, that is, distinct states of a run have distinct       *)
(* digests.  A *StateHistory is a record with the identity ptr of its      *)
(* allocation: two pointers are equal iff they are the same allocation.    *)
(***************************************************************************)
NumCallers == 2     \* concurrent callers of tryAddState in SpecStore
MaxDepth == 2       \* depths offered and recorded in SpecStore: 0..MaxDepth

HashOfState(state) == state

Nil == [parentState |-> <<>>, move |-> "", depth |-> 0, ptr |-> 0]

\* sync.Map.Load
MapLoad(m, key) ==
    IF key \in DOMAIN m THEN [val |-> m[key], exists |-> TRUE]
    ELSE [val |-> Nil, exists |-> FALSE]

\* sync.Map.CompareAndSwap: swaps only when the key is present and holds old;
\* a key with no entry is left without one, whatever old is
MapCompareAndSwap(m, key, old, new) ==
    IF key \in DOMAIN m /\ m[key] = old
    THEN [m |-> [m EXCEPT ![key] = new], swapped |-> TRUE]
    ELSE [m |-> m, swapped |-> FALSE]

\* &StateHistory{parent, move, depth}, allocated by caller w
NewHistory(w) ==
    [parentState |-> targs[w].parent, move |-> targs[w].move,
     depth |-> targs[w].depth, ptr |-> w]

\* the comparison that would also replace a record of equal depth
BetterEqualDepth(depth, existingDepth) == depth <= existingDepth
\* line 179: the offered path is better than the recorded one
BetterDepth(depth, existingDepth) == depth < existingDepth

\* One pass of the loop of tryAddState up to its CompareAndSwap: the Load, the
\* comparison, and "return false".
TryAddLoad(w) ==
    /\ tpc[w] = "load"
    /\ LET r == MapLoad(stateHistory, HashOfState(targs[w].state))
       IN  IF ~r.exists
           THEN /\ tpc' = [tpc EXCEPT ![w] = "cas"]
                /\ texisting' = [texisting EXCEPT ![w] = Nil]
                /\ tret' = tret
           ELSE IF BetterDepth(targs[w].depth, r.val.depth)
           THEN /\ tpc' = [tpc EXCEPT ![w] = "cas"]
                /\ texisting' = [texisting EXCEPT ![w] = r.val]
                /\ tret' = tret
           ELSE /\ tpc' = [tpc EXCEPT ![w] = "ret"]
                /\ tret' = [tret EXCEPT ![w] = "false"]
                /\ texisting' = texisting
    /\ UNCHANGED <<stateHistory, targs>>

\* The CompareAndSwap of lines 172 and 186, "return true" when it swapped and
\* "continue" when it did not.
TryAddCAS(w) ==
    /\ tpc[w] = "cas"
    /\ LET r == MapCompareAndSwap(stateHistory, HashOfState(targs[w].state),
                                  texisting[w], NewHistory(w))
       IN  /\ stateHistory' = r.m
           /\ tpc' = [tpc EXCEPT ![w] = IF r.swapped THEN "ret" ELSE "load"]
           /\ tret' = [tret EXCEPT ![w] = IF r.swapped THEN "true" ELSE tret[w]]
    /\ UNCHANGED <<targs, texisting>>

(***************************************************************************)
(* SpecStore: callers racing in tryAddState for one state.  The store      *)
(* starts with no record for the state or with one, of any depth.          *)
(***************************************************************************)
Callers == 1..NumCallers
TheState == <<ByteA>>
ParentOf(w) == <<ByteA + w>>

InitStore ==
    /\ \/ stateHistory = <<>>
       \/ \E d \in 0..MaxDepth :
            stateHistory = (HashOfState(TheState) :>
                [parentState |-> ParentOf(0), move |-> "first", depth |-> d,
                 ptr |-> NumCallers + 1])
    /\ tpc = [w \in Callers |-> "idle"]
    /\ targs = [w \in Callers |->
                  [state |-> TheState, parent |-> ParentOf(w), move |-> "move", depth |-> 0]]
    /\ texisting = [w \in Callers |-> Nil]
    /\ tret = [w \in Callers |-> "none"]
    /\ IdleNext /\ IdleSolved /\ IdleCodec /\ IdlePool /\ IdleJs /\ IdlePath /\ IdleDecode /\ IdleMoves /\ IdleQueue /\ IdleSteal /\ IdleProcess /\ IdleCard /\ IdleFill /\ IdlePw /\ IdleMcts

\* caller w enters tryAddState(TheState, parent, move, depth)
Call(w) ==
    /\ tpc[w] = "idle"
    /\ \E d \in 0..MaxDepth :
         targs' = [targs EXCEPT ![w].depth = d]
    /\ tpc' = [tpc EXCEPT ![w] = "load"]
    /\ UNCHANGED <<stateHistory, texisting, tret>>

NextStore ==
    \E w \in Callers :
        \/ Call(w) /\ UNCHANGED <<varsNext, varsSolved, varsCodec, varsPool, varsJs, varsPath, varsDecode, varsMoves, varsQueue, varsSteal, varsProcess, varsCard, varsFill, varsPw, varsMcts>>
        \/ TryAddLoad(w) /\ UNCHANGED <<varsNext, varsSolved, varsCodec, varsPool, varsJs, varsPath, varsDecode, varsMoves, varsQueue, varsSteal, varsProcess, varsCard, varsFill, varsPw, varsMcts>>
        \/ TryAddCAS(w) /\ UNCHANGED <<varsNext, varsSolved, varsCodec, varsPool, varsJs, varsPath, varsDecode, varsMoves, varsQueue, varsSteal, varsProcess, varsCard, varsFill, varsPw, varsMcts>>

\* goroutines are scheduled fairly: a caller inside tryAddState keeps running
SpecStore ==
    /\ InitStore /\ [][NextStore]_vars
    /\ \A w \in Callers : WF_varsStore(TryAddLoad(w)) /\ WF_varsStore(TryAddCAS(w))

HasRecord == HashOfState(TheState) \in DOMAIN stateHistory
Recorded == stateHistory[HashOfState(TheState)]
InFlight(w) == tpc[w] \in {"load", "cas"}
Returned(w) == tpc[w] = "ret"
Min(S) == CHOOSE x \in S : \A y \in S : x <= y

\* C2: when N workers call tryAddState concurrently for the same previously
\* unseen state with the same depth, all calls return, and then exactly one
\* record for the state exists and exactly one call has returned true.
C2_OneWinner ==
    (/\ ~HasRecord
     /\ \A w \in Callers : InFlight(w) /\ targs[w].depth = targs[1].depth)
    ~> (/\ \A w \in Callers : Returned(w)
        /\ HasRecord
        /\ Cardinality({w \in Callers : tret[w] = "true"}) = 1)

\* C3: tryAddState called for a state with no record, with no concurrent
\* caller, terminates, installs a record holding (parent, move, depth) and
\* returns true.
C3_InstallsUnseen ==
    \A w \in Callers :
        (~HasRecord /\ InFlight(w) /\ \A v \in Callers \ {w} : tpc[v] = "idle")
        ~> (\/ \E v \in Callers \ {w} : tpc[v] # "idle"
            \/ /\ Returned(w) /\ tret[w] = "true"
               /\ HasRecord
               /\ Recorded.parentState = targs[w].parent
               /\ Recorded.move = targs[w].move
               /\ Recorded.depth = targs[w].depth)

\* C4: for a state that already has a record, tryAddState returns true iff the
\* offered depth is strictly smaller than the recorded depth; when it returns
\* true the record is replaced by the offered (parent, move, depth), and when it
\* returns false the record is left unchanged.
C4_ExistingRecord ==
    [][\A w \in Callers :
         (HasRecord /\ ~Returned(w) /\ Returned(w)') =>
            /\ (tret'[w] = "true") <=> (targs[w].depth < Recorded.depth)
            /\ tret'[w] = "true" => stateHistory' = (HashOfState(TheState) :> NewHistory(w))
            /\ tret'[w] = "false" => stateHistory' = stateHistory]_vars

\* a call has replaced an existing record and another, offered no better, returned false
C4_Witness ==
    /\ HasRecord
    /\ \E w \in Callers : Returned(w) /\ tret[w] = "true" /\ Recorded = NewHistory(w)
    /\ \E v \in Callers : Returned(v) /\ tret[v] = "false"

\* C5: no improving update is lost under contention: once the concurrent calls
\* for a state have returned (and they do return), the recorded depth is no
\* greater than the least depth offered.
C5_NoUpdateLost ==
    (\A w \in Callers : InFlight(w))
    ~> (/\ \A w \in Callers : Returned(w)
        /\ HasRecord
        /\ Recorded.depth <= Min({targs[w].depth : w \in Callers}))

(***************************************************************************)
(* The worker pool: main, the goroutine of wg.Wait(), and the workers.     *)
(* A StateItem is [state, priority]; a PriorityQueue is the sequence of    *)
(* its items, heap.Pop taking an item of the highest priority.             *)
(***************************************************************************)
maxWorkers == 8     \* line 711
PoolDeals == 8      \* deals drawn by SpecPool
RunningWorkers == 2 \* workers running in SpecWorkers
WorkerDeals == 2    \* deals whose states fill the queues in SpecWorkers
MaxQueue == 2       \* items a queue holds at the start of SpecWorkers

getStateScore(state) ==
    LET parts == Split(state, Underscore)
    IN  IF Len(parts) # 2 THEN 0
        ELSE SumLen(Split(parts[2], Underscore))

\* heap.Push
HeapPush(q, item) == Append(q, item)

\* the items heap.Pop may return: those no other item has a higher priority than
HeapTop(q) == {i \in 1..Len(q) : \A j \in 1..Len(q) : q[j].priority <= q[i].priority}
HeapRemove(q, i) == SubSeq(q, 1, i - 1) \o SubSeq(q, i + 1, Len(q))

\* The move text of processNextState, lines 259-318: which kind of move led
\* from state to nextState.  The card and the row numbers of the text are
\* left out.
MoveText(state, nextState) ==
    LET oldParts == Split(state, Underscore)
        newParts == Split(nextState, Underscore)
        oldFoundations == IF Len(oldParts) > 1 THEN oldParts[2] ELSE <<>>
        newFoundations == IF Len(newParts) > 1 THEN newParts[2] ELSE <<>>
    IN  IF oldFoundations # newFoundations
        THEN (IF Len(newFoundations) > Len(oldFoundations)
              THEN "Move to foundation" ELSE "Unknown move")
        ELSE "Move from row to row"

RECURSIVE WalkPath(_, _, _)
\* the loop of reconstructPath
WalkPath(cur, visited, path) ==
    IF HashOfState(cur) \in visited THEN path
    ELSE IF ~MapLoad(stateHistory, HashOfState(cur)).exists THEN path
    ELSE LET history == stateHistory[HashOfState(cur)]
             longer == IF history.move # "" THEN <<history.move>> \o path ELSE path
         IN  IF history.parentState = <<>> THEN longer
             ELSE WalkPath(history.parentState, visited \cup {HashOfState(cur)}, longer)

reconstructPath(finalState) == WalkPath(finalState, {}, <<>>)

Slots == 0..(slots - 1)
NoItem == [state |-> <<>>, priority |-> 0]
Running == mainpc # "exited"

\* main, lines 731-732: wg.Add(1); go worker(0, compactInitial, ...)
MainSpawn ==
    /\ mainpc = "spawn"
    /\ wg' = wg + 1
    /\ wpc' = [wpc EXCEPT ![0] = "init"]
    /\ mainpc' = "waiter"
    /\ UNCHANGED <<slots, initial, waiterpc, queue, current, results, ctxDone, report>>
    /\ UNCHANGED <<varsNext, varsSolved, varsStore, varsCodec, varsJs, varsPath, varsDecode, varsMoves, varsQueue, varsSteal, varsProcess, varsCard, varsFill, varsPw, varsMcts>>

\* main, lines 735-739: the goroutine that waits for the WaitGroup is started
MainWaiter ==
    /\ mainpc = "waiter"
    /\ waiterpc' = "wait"
    /\ mainpc' = "select"
    /\ UNCHANGED <<slots, initial, wg, wpc, queue, current, results, ctxDone, report>>
    /\ UNCHANGED <<varsNext, varsSolved, varsStore, varsCodec, varsJs, varsPath, varsDecode, varsMoves, varsQueue, varsSteal, varsProcess, varsCard, varsFill, varsPw, varsMcts>>

\* worker, lines 541-544: the initial state is queued and tryAddState is entered
WorkerInit(w) ==
    /\ w \in Slots /\ Running /\ wpc[w] = "init"
    /\ queue' = [queue EXCEPT ![w] =
                    HeapPush(queue[w], [state |-> initial, priority |-> getStateScore(initial)])]
    /\ targs' = [targs EXCEPT ![w] =
                    [state |-> initial, parent |-> initial, move |-> "Initial state", depth |-> 0]]
    /\ tpc' = [tpc EXCEPT ![w] = "load"]
    /\ wpc' = [wpc EXCEPT ![w] = "tryAdd"]
    /\ UNCHANGED <<stateHistory, texisting, tret>>
    /\ UNCHANGED <<slots, initial, mainpc, waiterpc, wg, current, results, ctxDone, report>>
    /\ UNCHANGED <<varsNext, varsSolved, varsCodec, varsJs, varsPath, varsDecode, varsMoves, varsQueue, varsSteal, varsProcess, varsCard, varsFill, varsPw, varsMcts>>

\* a worker inside tryAddState takes the steps of tryAddState
WorkerTryAddLoad(w) ==
    /\ w \in Slots /\ Running /\ wpc[w] = "tryAdd"
    /\ TryAddLoad(w)
    /\ UNCHANGED <<varsNext, varsSolved, varsCodec, varsPool, varsJs, varsPath, varsDecode, varsMoves, varsQueue, varsSteal, varsProcess, varsCard, varsFill, varsPw, varsMcts>>

WorkerTryAddCAS(w) ==
    /\ w \in Slots /\ Running /\ wpc[w] = "tryAdd"
    /\ TryAddCAS(w)
    /\ UNCHANGED <<varsNext, varsSolved, varsCodec, varsPool, varsJs, varsPath, varsDecode, varsMoves, varsQueue, varsSteal, varsProcess, varsCard, varsFill, varsPw, varsMcts>>

(***************************************************************************)
(* SpecPool: a run of main.  The deal is made, worker 0 is started with    *)
(* the initial state and enters tryAddState(initial, ...).  The key of the *)
(* initial state is absent from stateHistory, and CompareAndSwap does not  *)
(* insert (MapCompareAndSwap), so the call keeps retrying: control never   *)
(* reaches the loop of line 550, no other worker is ever started, and      *)
(* these are all the steps a run takes.                                    *)
(***************************************************************************)
InitPool ==
    /\ slots \in {1, maxWorkers}
    /\ \E k \in 0..(PoolDeals - 1) : initial = ToCompact(Deal(k))
    /\ mainpc = "spawn" /\ waiterpc = "none" /\ wg = 0
    /\ wpc = [w \in Slots |-> "unstarted"]
    /\ queue = [w \in Slots |-> <<>>]
    /\ current = [w \in Slots |-> NoItem]
    /\ results = <<>> /\ ctxDone = FALSE /\ report = "none"
    /\ stateHistory = <<>>
    /\ tpc = [w \in Slots |-> "idle"]
    /\ targs = [w \in Slots |-> [state |-> <<>>, parent |-> <<>>, move |-> "", depth |-> 0]]
    /\ texisting = [w \in Slots |-> Nil]
    /\ tret = [w \in Slots |-> "none"]
    /\ IdleNext /\ IdleSolved /\ IdleCodec /\ IdleJs /\ IdlePath /\ IdleDecode /\ IdleMoves /\ IdleQueue /\ IdleSteal /\ IdleProcess /\ IdleCard /\ IdleFill /\ IdlePw /\ IdleMcts

NextPool ==
    \/ MainSpawn
    \/ MainWaiter
    \/ \E w \in Slots : WorkerInit(w)
    \/ \E w \in Slots : WorkerTryAddLoad(w)
    \/ \E w \in Slots : WorkerTryAddCAS(w)

\* goroutines are scheduled fairly
SpecPool ==
    /\ InitPool /\ [][NextPool]_vars
    /\ WF_vars(MainSpawn) /\ WF_vars(MainWaiter)
    /\ \A w \in 0..(maxWorkers - 1) :
          WF_vars(WorkerInit(w)) /\ WF_vars(WorkerTryAddLoad(w)) /\ WF_vars(WorkerTryAddCAS(w))

IsRecorded(state) == MapLoad(stateHistory, HashOfState(state)).exists

\* C6: for the same initial deal, with 1 worker slot or with N, the search
\* comes to record the states reachable from the initial state through
\* NextStates, none being permanently missed: the initial state and the
\* states NextStates generates from it are eventually all recorded.
C6_ReachableRecorded ==
    <>(/\ IsRecorded(initial)
       /\ \A next \in Range(NextStates(initial)) : IsRecorded(next))

(***************************************************************************)
(* SpecWorkers: the loop of worker and the select of main, from the point  *)
(* where a worker has popped a state and found it to be a solution (line   *)
(* 595) while the other workers stand at the head of the loop.             *)
(***************************************************************************)
\* lines 552-557: the select on ctx.Done() at the head of the loop
LoopCheck(w) ==
    /\ w \in Slots /\ Running /\ wpc[w] = "loop"
    /\ IF ctxDone
       THEN wpc' = [wpc EXCEPT ![w] = "exited"] /\ wg' = wg - 1
       ELSE wpc' = [wpc EXCEPT ![w] = "getNext"] /\ wg' = wg
    /\ UNCHANGED <<slots, initial, mainpc, waiterpc, queue, current, results, ctxDone, report>>
    /\ UNCHANGED <<varsNext, varsSolved, varsStore, varsCodec, varsJs, varsPath, varsDecode, varsMoves, varsQueue, varsSteal, varsProcess, varsCard, varsFill, varsPw, varsMcts>>

\* the first sibling, in slot order, whose queue holds more than one item
StealTargets(w) == {target \in Slots \ {w} : Len(queue[target]) > 1}

\* lines 560-599: getNextState; with an empty queue, a steal from a sibling
\* or the exit; with an item, the test isSolution
GetNext(w) ==
    /\ w \in Slots /\ Running /\ wpc[w] = "getNext"
    /\ IF Len(queue[w]) > 0
       THEN \E i \in HeapTop(queue[w]) :
              /\ current' = [current EXCEPT ![w] = queue[w][i]]
              /\ queue' = [queue EXCEPT ![w] = HeapRemove(queue[w], i)]
              /\ wpc' = [wpc EXCEPT ![w] =
                            IF isSolution(queue[w][i].state) THEN "found" ELSE "expand"]
              /\ wg' = wg
       ELSE IF StealTargets(w) # {}
       THEN LET target == Min(StealTargets(w))
            IN  \E i \in HeapTop(queue[target]) :
                  /\ current' = [current EXCEPT ![w] = queue[target][i]]
                  /\ queue' = [queue EXCEPT ![target] = HeapRemove(queue[target], i)]
                  /\ wpc' = [wpc EXCEPT ![w] = "stolen"]
                  /\ wg' = wg
       ELSE /\ wpc' = [wpc EXCEPT ![w] = "exited"]
            /\ wg' = wg - 1
            /\ UNCHANGED <<queue, current>>
    /\ UNCHANGED <<slots, initial, mainpc, waiterpc, results, ctxDone, report>>
    /\ UNCHANGED <<varsNext, varsSolved, varsStore, varsCodec, varsJs, varsPath, varsDecode, varsMoves, varsQueue, varsSteal, varsProcess, varsCard, varsFill, varsPw, varsMcts>>

\* lines 577-587: the stolen item is pushed on the worker's own queue
AddStolen(w) ==
    /\ w \in Slots /\ Running /\ wpc[w] = "stolen"
    /\ queue' = [queue EXCEPT ![w] = HeapPush(queue[w], current[w])]
    /\ wpc' = [wpc EXCEPT ![w] = "loop"]
    /\ UNCHANGED <<slots, initial, mainpc, waiterpc, wg, current, results, ctxDone, report>>
    /\ UNCHANGED <<varsNext, varsSolved, varsStore, varsCodec, varsJs, varsPath, varsDecode, varsMoves, varsQueue, varsSteal, varsProcess, varsCard, varsFill, varsPw, varsMcts>>

\* lines 595-598: the path is sent on results and the worker returns
Publish(w) ==
    /\ w \in Slots /\ Running /\ wpc[w] = "found"
    /\ results' = Append(results, reconstructPath(current[w].state))
    /\ wpc' = [wpc EXCEPT ![w] = "published"]
    /\ wg' = wg - 1
    /\ UNCHANGED <<slots, initial, mainpc, waiterpc, queue, current, ctxDone, report>>
    /\ UNCHANGED <<varsNext, varsSolved, varsStore, varsCodec, varsJs, varsPath, varsDecode, varsMoves, varsQueue, varsSteal, varsProcess, varsCard, varsFill, varsPw, varsMcts>>

\* line 602 and processNextState up to its first tryAddState: the expansion
\* starts; a state without successors is done at once
StartExpand(w) ==
    /\ w \in Slots /\ Running /\ wpc[w] = "expand"
    /\ LET state == current[w].state
           depth == current[w].priority
           nextStates == NextStates(state)
       IN  IF Len(nextStates) = 0
           THEN /\ wpc' = [wpc EXCEPT ![w] = "loop"]
                /\ UNCHANGED <<tpc, targs>>
           ELSE /\ wpc' = [wpc EXCEPT ![w] = "tryAdd"]
                /\ targs' = [targs EXCEPT ![w] =
                                [state |-> nextStates[1], parent |-> state,
                                 move |-> MoveText(state, nextStates[1]),
                                 depth |-> depth + 1]]
                /\ tpc' = [tpc EXCEPT ![w] = "load"]
    /\ UNCHANGED <<stateHistory, texisting, tret>>
    /\ UNCHANGED <<slots, initial, mainpc, waiterpc, wg, queue, current, results, ctxDone, report>>
    /\ UNCHANGED <<varsNext, varsSolved, varsCodec, varsJs, varsPath, varsDecode, varsMoves, varsQueue, varsSteal, varsProcess, varsCard, varsFill, varsPw, varsMcts>>

\* lines 736-739: wg.Wait() returns and done <- true is offered
WaiterDone ==
    /\ Running /\ waiterpc = "wait" /\ wg = 0
    /\ waiterpc' = "sending"
    /\ UNCHANGED <<slots, initial, mainpc, wg, wpc, queue, current, results, ctxDone, report>>
    /\ UNCHANGED <<varsNext, varsSolved, varsStore, varsCodec, varsJs, varsPath, varsDecode, varsMoves, varsQueue, varsSteal, varsProcess, varsCard, varsFill, varsPw, varsMcts>>

\* lines 742-751: the select of main receives a path
MainSelectPath ==
    /\ mainpc = "select" /\ Len(results) > 0
    /\ results' = Tail(results)
    /\ report' = IF Head(results) # <<>> THEN "Solution found!" ELSE "No solution found"
    /\ mainpc' = "scanln"
    /\ UNCHANGED <<slots, initial, waiterpc, wg, wpc, queue, current, ctxDone>>
    /\ UNCHANGED <<varsNext, varsSolved, varsStore, varsCodec, varsJs, varsPath, varsDecode, varsMoves, varsQueue, varsSteal, varsProcess, varsCard, varsFill, varsPw, varsMcts>>

\* lines 752-753: the select of main receives done
MainSelectDone ==
    /\ mainpc = "select" /\ waiterpc = "sending"
    /\ waiterpc' = "finished"
    /\ report' = "All workers finished with no solution"
    /\ mainpc' = "scanln"
    /\ UNCHANGED <<slots, initial, wg, wpc, queue, current, results, ctxDone>>
    /\ UNCHANGED <<varsNext, varsSolved, varsStore, varsCodec, varsJs, varsPath, varsDecode, varsMoves, varsQueue, varsSteal, varsProcess, varsCard, varsFill, varsPw, varsMcts>>

\* lines 758-759 and 728: Enter is pressed, main returns and the deferred
\* cancel() runs
MainReturn ==
    /\ mainpc = "scanln"
    /\ ctxDone' = TRUE
    /\ mainpc' = "returned"
    /\ UNCHANGED <<slots, initial, waiterpc, wg, wpc, queue, current, results, report>>
    /\ UNCHANGED <<varsNext, varsSolved, varsStore, varsCodec, varsJs, varsPath, varsDecode, varsMoves, varsQueue, varsSteal, varsProcess, varsCard, varsFill, varsPw, varsMcts>>

\* main has returned: the process exits and every goroutine stops
ProcessExit ==
    /\ mainpc = "returned"
    /\ mainpc' = "exited"
    /\ UNCHANGED <<slots, initial, waiterpc, wg, wpc, queue, current, results, ctxDone, report>>
    /\ UNCHANGED <<varsNext, varsSolved, varsStore, varsCodec, varsJs, varsPath, varsDecode, varsMoves, varsQueue, varsSteal, varsProcess, varsCard, varsFill, varsPw, varsMcts>>

WorkerItems ==
    {[state |-> ToCompact(Deal(k)), priority |-> getStateScore(ToCompact(Deal(k)))] :
        k \in 0..(WorkerDeals - 1)}
     \cup {[state |-> <<Pipe, Pipe, Pipe, Pipe, Pipe, Pipe, Pipe, Underscore>>, priority |-> 0]}

StartQueues == UNION {[1..n -> WorkerItems] : n \in 0..MaxQueue}

InitWorkers ==
    /\ slots = RunningWorkers
    /\ initial = ToCompact(Deal(0))
    /\ mainpc = "select" /\ waiterpc = "wait" /\ wg = RunningWorkers
    /\ wpc = [w \in Slots |-> IF w = 0 THEN "found" ELSE "loop"]
    /\ queue \in [Slots -> StartQueues]
    /\ current = [w \in Slots |->
                    IF w = 0 THEN [state |-> <<Pipe, Pipe, Pipe, Pipe, Pipe, Pipe, Pipe, Underscore>>,
                                   priority |-> 0]
                    ELSE NoItem]
    /\ results = <<>> /\ ctxDone = FALSE /\ report = "none"
    /\ stateHistory = <<>>
    /\ tpc = [w \in Slots |-> "idle"]
    /\ targs = [w \in Slots |-> [state |-> <<>>, parent |-> <<>>, move |-> "", depth |-> 0]]
    /\ texisting = [w \in Slots |-> Nil]
    /\ tret = [w \in Slots |-> "none"]
    /\ IdleNext /\ IdleSolved /\ IdleCodec /\ IdleJs /\ IdlePath /\ IdleDecode /\ IdleMoves /\ IdleQueue /\ IdleSteal /\ IdleProcess /\ IdleCard /\ IdleFill /\ IdlePw /\ IdleMcts

NextWorkers ==
    \/ \E w \in Slots : LoopCheck(w)
    \/ \E w \in Slots : GetNext(w)
    \/ \E w \in Slots : AddStolen(w)
    \/ \E w \in Slots : Publish(w)
    \/ \E w \in Slots : StartExpand(w)
    \/ \E w \in Slots : WorkerTryAddLoad(w)
    \/ \E w \in Slots : WorkerTryAddCAS(w)
    \/ WaiterDone
    \/ MainSelectPath
    \/ MainSelectDone
    \/ MainReturn
    \/ ProcessExit

SpecWorkers == InitWorkers /\ [][NextWorkers]_vars

Published == \E w \in Slots : wpc[w] = "published"
PathReceived == report \in {"Solution found!", "No solution found"}

CodecDeals == 3     \* deals drawn in SpecCodec
MaxMoves == 2       \* moves applied from a deal in SpecCodec
MaxSwaps == 2       \* exchanges of neighbouring rows made in SpecCodec

Foundation == -1
RowCap == 19
NumRows == 8

createDeck ==
    [i \in 1..52 |-> [Value |-> ((i - 1) % 13) + 1, Suit |-> suits[((i - 1) \div 13) + 1]]]

\* Reset: the shuffled deck dealt into 4 rows of 7 and 4 rows of 6; the shuffle
\* drawn is the permutation i -> (k+1) * i mod 53 of the deck positions
ResetRowStart(row) == IF row < 4 THEN 7 * row ELSE 28 + 6 * (row - 4)
ResetRowLen(row) == IF row >= 4 THEN 6 ELSE 7

Reset(k) ==
    [r \in 1..NumRows |->
        [col \in 1..ResetRowLen(r - 1) |->
            createDeck[(((k % 52) + 1) * (ResetRowStart(r - 1) + col)) % 53]]]

getRowLength(g, row) == Len(g[row])
NoCard == [Value |-> 0, Suit |-> ""]
getFirstCard(g, row) == IF Len(g[row]) = 0 THEN NoCard ELSE g[row][1]

suitPriority == ("H" :> 0) @@ ("D" :> 1) @@ ("C" :> 2) @@ ("S" :> 3)

compareCards(a, b) ==
    IF a.Value # b.Value THEN a.Value < b.Value
    ELSE suitPriority[a.Suit] < suitPriority[b.Suit]

SwapIdx(indices, i, j) == [indices EXCEPT ![i] = indices[j], ![j] = indices[i]]

\* the body of the inner loop of NormalizeRows for the positions i < j
CompareExchange(g, indices, i, j) ==
    LET lenI == getRowLength(g, indices[i])
        lenJ == getRowLength(g, indices[j])
        cardI == getFirstCard(g, indices[i])
        cardJ == getFirstCard(g, indices[j])
    IN  IF lenI < lenJ THEN SwapIdx(indices, i, j)
        ELSE IF lenI = lenJ
             THEN IF cardI = NoCard THEN SwapIdx(indices, i, j)
                  ELSE IF cardJ = NoCard THEN indices
                  ELSE IF ~compareCards(cardI, cardJ) THEN SwapIdx(indices, i, j)
                  ELSE indices
        ELSE indices

RECURSIVE SortIndices(_, _, _, _)
\* the loops "for i := 0; i < 7" and "for j := i + 1; j < 8" (1-based here),
\* 8 being len(indices)
SortIndices(g, indices, i, j) ==
    IF i > Len(indices) - 1 THEN indices
    ELSE IF j > Len(indices) THEN SortIndices(g, indices, i + 1, i + 2)
    ELSE SortIndices(g, CompareExchange(g, indices, i, j), i, j + 1)

\* the rows left where they stand
SkipNormalize(g) == g
NormalizeRows(g) ==
    LET indices == SortIndices(g, [i \in 1..NumRows |-> i], 1, 2)
    IN  [newPos \in 1..NumRows |-> g[indices[newPos]]]

(***************************************************************************)
(* Hash: the normalized rows as a stream of 6-bit values packed into bytes.*)
(* add6Bits appends 6 bits to the stream and emits every completed byte,   *)
(* so the j-th byte of the result is bits 8(j-1) .. 8j-1 of the stream,    *)
(* and the final padding fills the last byte with zero bits.  The uint32   *)
(* accumulator never holds more than 13 bits, so it never wraps.           *)
(***************************************************************************)
Delimiter == 63
suitValue == suitPriority

cardValue(card) == ((((card.Value - 1) * 4) % 256) + suitValue[card.Suit]) % 256

RECURSIVE SixBitStream(_, _)
\* the values handed to add6Bits, in order: the cards of each row, and the
\* delimiter after every row but the last
SixBitStream(g, row) ==
    IF row > NumRows THEN <<>>
    ELSE [col \in 1..Len(g[row]) |-> cardValue(g[row][col]) % 64]
         \o (IF row < NumRows THEN <<Delimiter>> ELSE <<>>)
         \o SixBitStream(g, row + 1)

\* the j-th byte add6Bits (or the final padding) appends to result
ResultByte(stream, j) ==
    LET p == 8 * (j - 1)
        t == p \div 6
        o == p % 6
        hi == stream[t + 1]
        lo == IF t + 2 <= Len(stream) THEN stream[t + 2] ELSE 0
    IN  ((hi * 64 + lo) \div (2 ^ (4 - o))) % 256

Hash(g) ==
    LET stream == SixBitStream(NormalizeRows(g), 1)
        bytes == (6 * Len(stream) + 7) \div 8
    IN  [j \in 1..bytes |-> ResultByte(stream, j)]

(***************************************************************************)
(* FromHash.  The t-th call of getNext6Bits returns bits 6(t-1) .. 6t-1 of *)
(* the byte stream while 6t <= 8 * len(data); the loop of FromHash places  *)
(* the values row by row and stops at the first error or at the clean end. *)
(***************************************************************************)
suitFromValue == <<"H", "D", "C", "S">>

\* the value of the t-th successful call of getNext6Bits
SixBits(data, t) ==
    LET p == 6 * (t - 1)
        q == p \div 8
        o == p % 8
        hi == data[q + 1]
        lo == IF q + 2 <= Len(data) THEN data[q + 2] ELSE 0
    IN  ((hi * 256 + lo) \div (2 ^ (10 - o))) % 64

\* 6-bit values the stream holds in full, and the bits left after them
FullValues(data) == (8 * Len(data)) \div 6
\* a reader that never finds a code cut short
NoLeftOverBits(data) == 0
LeftOverBits(data) == (8 * Len(data)) % 6

\* line 377: a value 0 that ends the stream on a byte boundary is the clean end
\* of the data and is not placed
PlacedValues(data) ==
    LET n == FullValues(data)
        all == [t \in 1..n |-> SixBits(data, t)]
    IN  IF n > 0 /\ LeftOverBits(data) = 0 /\ all[n] = 0 THEN SubSeq(all, 1, n - 1) ELSE all

decodeCard(v) == [Value |-> (v \div 4) + 1, Suit |-> suitFromValue[(v % 4) + 1]]

\* err is the error returned, "" for nil; g is the decoded rows, which the
\* callers read only when err is ""
FromHash(hash) ==
    IF Len(hash) = 0 THEN [err |-> "empty hash", g |-> [r \in 1..NumRows |-> <<>>]]
    ELSE LET placed == PlacedValues(hash)
             segs == Split(placed, Delimiter)
             tooManyRows == Len(segs) > NumRows
             tooManyCards == \E r \in 1..Len(segs) : r <= NumRows /\ Len(segs[r]) > RowCap
             incomplete == LeftOverBits(hash) # 0
             g == [r \in 1..NumRows |->
                      IF r <= Len(segs)
                      THEN [c \in 1..Len(segs[r]) |-> decodeCard(segs[r][c])]
                      ELSE <<>>]
         IN  IF tooManyCards THEN [err |-> "too many cards in row", g |-> g]
             ELSE IF tooManyRows THEN [err |-> "too many rows", g |-> g]
             ELSE IF incomplete THEN [err |-> "incomplete card data", g |-> g]
             ELSE [err |-> "", g |-> g]

Equals(g, other) == NormalizeRows(g) = NormalizeRows(other)

(***************************************************************************)
(* Moves.                                                                  *)
(***************************************************************************)
\* getLastCard: the card and, 0-based, its column; -1 for an empty row
getLastCard(g, row) ==
    IF Len(g[row + 1]) = 0 THEN [card |-> NoCard, col |-> -1]
    ELSE [card |-> Last(g[row + 1]), col |-> Len(g[row + 1]) - 1]

\* the highest value of each suit among the cards in the rows, 14 for none
getHighestRemainingCards(g) ==
    [suit \in {"H", "D", "C", "S"} |->
        LET held == {g[row][col].Value : <<row, col>> \in
                        {<<row, col>> \in (1..NumRows) \X (1..RowCap) :
                            col <= Len(g[row]) /\ g[row][col].Suit = suit}}
        IN  IF held = {} THEN 14 ELSE CHOOSE v \in held : \A w \in held : w <= v]

getLowestRemainingCards(g) ==
    [s \in {"H", "D", "C", "S"} |->
        LET vals == {g[r][c].Value : <<r, c>> \in
                        {<<r, c>> \in (1..NumRows) \X (1..RowCap) :
                            c <= Len(g[r]) /\ g[r][c].Suit = s}}
        IN  IF vals = {} THEN 14 ELSE Min(vals)]

\* the last empty row, 0-based, or -1: what the scan for emptyRow would find
\* without its break
lastEmptyRow(g) ==
    IF \E row \in 0..(NumRows - 1) : getLastCard(g, row).col = -1
    THEN CHOOSE row \in 0..(NumRows - 1) :
            /\ getLastCard(g, row).col = -1
            /\ \A other \in 0..(NumRows - 1) : getLastCard(g, other).col = -1 => other <= row
    ELSE -1

\* the first empty row, 0-based, or -1
firstEmptyRow(g) ==
    IF \E row \in 0..(NumRows - 1) : getLastCard(g, row).col = -1
    THEN Min({row \in 0..(NumRows - 1) : getLastCard(g, row).col = -1})
    ELSE -1

\* The candidates in the order the loop over fromRow considers them: the
\* foundation, the first empty row, then each toRow.
generateLegalMoves(g) ==
    LET lowest == getLowestRemainingCards(g)
        emptyRow == firstEmptyRow(g)
        perRow == NumRows + 2
        cand == [idx \in 1..(NumRows * perRow) |->
                    [From |-> (idx - 1) \div perRow, slot |-> (idx - 1) % perRow]]
        target(c) == IF c.slot = 0 THEN Foundation
                     ELSE IF c.slot = 1 THEN emptyRow ELSE c.slot - 2
        legal(c) ==
            LET from == getLastCard(g, c.From)
            IN  /\ from.col # -1
                /\ IF c.slot = 0 THEN from.card.Value = lowest[from.card.Suit]
                   ELSE IF c.slot = 1 THEN emptyRow # -1 /\ emptyRow # c.From
                   ELSE /\ c.From # c.slot - 2
                        /\ getLastCard(g, c.slot - 2).col # -1
                        /\ from.card.Value + 1 = getLastCard(g, c.slot - 2).card.Value
        kept == SelectSeq(cand, legal)
    IN  [i \in 1..Len(kept) |-> [From |-> kept[i].From, To |-> target(kept[i])]]

applyMove(g, move) ==
    LET from == getLastCard(g, move.From)
        removed == [g EXCEPT ![move.From + 1] = Front(g[move.From + 1])]
    IN  IF from.col = -1 THEN [g |-> g, err |-> "source row is empty"]
        ELSE IF move.To = Foundation THEN [g |-> removed, err |-> ""]
        ELSE IF Len(removed[move.To + 1]) < RowCap
             THEN [g |-> [removed EXCEPT ![move.To + 1] = Append(removed[move.To + 1], from.card)],
                   err |-> ""]
        ELSE [g |-> removed, err |-> "destination row is full"]

CountCardsInRows(g) == SumLen(g)

(***************************************************************************)
(* SpecCodec: the games reached from a deal by legal moves, and their rows *)
(* exchanged.                                                              *)
(***************************************************************************)
\* the layouts drawn: a deal with its first n rows dealt and the others empty
DealtRows == {NumRows, 3, 0}
Layout(k, n) == [r \in 1..NumRows |-> IF r <= n THEN Reset(k)[r] ELSE <<>>]

InitCodec ==
    /\ \E k \in 0..(CodecDeals - 1), n \in DealtRows :
         game = Layout(k, n) /\ orig = Layout(k, n)
    /\ nmoves = 0 /\ nswaps = 0
    /\ IdleNext /\ IdleSolved /\ IdleStore /\ IdlePool /\ IdleJs /\ IdlePath /\ IdleDecode /\ IdleMoves /\ IdleQueue /\ IdleSteal /\ IdleProcess /\ IdleCard /\ IdleFill /\ IdlePw /\ IdleMcts

\* a move generateLegalMoves offers is applied
MoveStep ==
    /\ nmoves < MaxMoves /\ nswaps = 0
    /\ \E m \in Range(generateLegalMoves(game)) :
         LET r == applyMove(game, m)
         IN  /\ r.err = ""
             /\ game' = r.g /\ orig' = r.g
    /\ nmoves' = nmoves + 1
    /\ UNCHANGED <<nswaps, varsNext, varsSolved, varsStore, varsPool, varsJs, varsPath, varsDecode, varsMoves, varsQueue, varsSteal, varsProcess, varsCard, varsFill, varsPw, varsMcts>>

\* two neighbouring rows change places; such exchanges generate every permutation
SwapRows ==
    /\ nswaps < MaxSwaps
    /\ \E i \in 1..(NumRows - 1) :
         game' = [game EXCEPT ![i] = game[i + 1], ![i + 1] = game[i]]
    /\ nswaps' = nswaps + 1
    /\ UNCHANGED <<orig, nmoves, varsNext, varsSolved, varsStore, varsPool, varsJs, varsPath, varsDecode, varsMoves, varsQueue, varsSteal, varsProcess, varsCard, varsFill, varsPw, varsMcts>>

NextCodec == MoveStep \/ SwapRows

SpecCodec == InitCodec /\ [][NextCodec]_vars

\* the game stems from a full deal: it holds all the cards but those moved out
FromFullDeal == CountCardsInRows(game) >= 52 - MaxMoves

\* C9: for every state s reached from a full deal by legal moves,
\* FromHash(Hash(s)) returns no error and yields a state that Equals s, and
\* re-encoding the decoded state gives the same string as Hash(s).
C9_RoundTrip ==
    FromFullDeal =>
        LET d == FromHash(Hash(game))
        IN  /\ d.err = ""
            /\ Equals(d.g, game)
            /\ Hash(d.g) = Hash(game)

\* C10: for any state s and any permutation p of its 8 rows, Hash(p(s)) is the
\* identical string to Hash(s).
C10_PermutationInvariant == Hash(game) = Hash(orig)

\* rows of a game with empty and with equally long rows have changed places,
\* and the first row is no longer the one it was
C10_Witness ==
    /\ nswaps = MaxSwaps
    /\ game # orig
    /\ game[1] # orig[1]
    /\ nmoves > 0
    /\ \E r \in 1..NumRows : Len(game[r]) = 0
    /\ \E r, q \in 1..NumRows : r # q /\ Len(game[r]) = Len(game[q]) /\ Len(game[r]) > 0
    /\ Hash(game) = Hash(orig)

(***************************************************************************)
(* Part 3: the browser solver, src/utils/solver.js with the search worker  *)
(* and its queues (src/utils/queues.js).  A JS string is modelled as the   *)
(* sequence of its char codes.                                             *)
(***************************************************************************)
JsDeals == 2            \* the deals drawn: JsDeal(0) .. JsDeal(JsDeals-1)
MaxIterations == 18     \* iterations of the loop of processQueue explored
MaxPosted == 2          \* messages posted before the model stops the handlers

Char0 == 48             \* "0".charCodeAt(0), the code of the Ace of hearts
SuitSlots == 16         \* the slots solver.js leaves per suit
workerCount == 4
JsMultiplier == 52

JsNull == <<0>>         \* null; no string of card codes equals it
Undefined == 0          \* undefined, where a char is expected

\* cardDeck of utils.js: clubs, diamonds, spades, hearts, each Ace to King
jsRanks == <<"A", "2", "3", "4", "5", "6", "7", "8", "9", "T", "J", "Q", "K">>
cardDeck == [i \in 1..52 |->
                <<jsRanks[((i - 1) % 13) + 1], <<"C", "D", "S", "H">>[((i - 1) \div 13) + 1]>>]

\* "A23456789TJQK".indexOf(c)
rankIndexOf(c) == (CHOOSE i \in 1..13 : jsRanks[i] = c) - 1

jsCardToSolver(card) ==
    LET value == rankIndexOf(card[1])
        suit == card[2]
    IN  IF suit = "H" THEN Char0 + value
        ELSE IF suit = "D" THEN Char0 + SuitSlots + value
        ELSE IF suit = "C" THEN Char0 + (2 * SuitSlots) + value
        ELSE Char0 + (3 * SuitSlots) + value

jsGetSolverValue(char) == (char - Char0) % SuitSlots

jsGetSolverSuit(code) ==
    IF code < Char0 + SuitSlots THEN 0
    ELSE IF code < Char0 + (2 * SuitSlots) THEN 1
    ELSE IF code < Char0 + (3 * SuitSlots) THEN 2
    ELSE 3

jsCanMoveSolver(card, targetCard) ==
    IF targetCard = Undefined THEN TRUE
    ELSE jsGetSolverValue(targetCard) = jsGetSolverValue(card) + 1

jsCanMoveToFoundationSolver(card, topCard) ==
    IF topCard = Undefined THEN jsGetSolverValue(card) = 0
    ELSE /\ jsGetSolverSuit(card) = jsGetSolverSuit(topCard)
         /\ jsGetSolverValue(card) = jsGetSolverValue(topCard) + 1

\* const [rowsStr, foundationsStr] = s.split("_"): the first two segments only
jsRowsStr(solverStr) == Split(solverStr, Underscore)[1]
jsFoundationsStr(solverStr) ==
    LET segments == Split(solverStr, Underscore)
    IN  IF Len(segments) > 1 THEN segments[2] ELSE <<>>
jsRows(solverStr) == Split(jsRowsStr(solverStr), Pipe)
jsFoundations(solverStr) == Split(jsFoundationsStr(solverStr), Underscore)

\* s?.[s.length - 1]
TopChar(s) == IF Len(s) > 0 THEN Last(s) ELSE Undefined

\* list.filter(Boolean).join("_")
JoinNonEmpty(list) == Join(SelectNonEmpty(list), Underscore)

\* Array.from(new Set(list)): the first occurrence of each string, in order
Distinct(list) ==
    LET keep == {i \in 1..Len(list) : \A j \in 1..(i - 1) : list[j] # list[i]}
        nth(k) == CHOOSE i \in keep : Cardinality({j \in keep : j < i}) = k - 1
    IN  [k \in 1..Cardinality(keep) |-> list[nth(k)]]

nextSolverStates(solverStr) ==
    LET rows == jsRows(solverStr)
        foundations == jsFoundations(solverStr)
        n == Len(rows)
        m == Len(foundations)
        toFoundation == SelectSeq(
            [idx \in 1..(n * m) |-> <<((idx - 1) \div m) + 1, ((idx - 1) % m) + 1>>],
            LAMBDA p : /\ Len(rows[p[1]]) # 0
                       /\ jsCanMoveToFoundationSolver(Last(rows[p[1]]),
                                                      TopChar(foundations[p[2]])))
        toRow == SelectSeq(
            [idx \in 1..(n * n) |-> <<((idx - 1) \div n) + 1, ((idx - 1) % n) + 1>>],
            LAMBDA p : /\ Len(rows[p[1]]) # 0
                       /\ p[1] # p[2]
                       /\ jsCanMoveSolver(Last(rows[p[1]]), TopChar(rows[p[2]])))
        foundationState(p) ==
            Join([rows EXCEPT ![p[1]] = Front(rows[p[1]])], Pipe) \o <<Underscore>>
            \o JoinNonEmpty([foundations EXCEPT
                                ![p[2]] = Append(foundations[p[2]], Last(rows[p[1]]))])
        rowState(p) ==
            Join([rows EXCEPT ![p[1]] = Front(rows[p[1]]),
                              ![p[2]] = Append(rows[p[2]], Last(rows[p[1]]))], Pipe)
            \o <<Underscore>> \o JoinNonEmpty(foundations)
    IN  Distinct([i \in 1..Len(toFoundation) |-> foundationState(toFoundation[i])]
                 \o [i \in 1..Len(toRow) |-> rowState(toRow[i])])

getInitialMoves(initialState) == nextSolverStates(initialState)

(***************************************************************************)
(* queues.js                                                               *)
(***************************************************************************)
RECURSIVE SumLen2(_)
SumLen2(list) == IF Len(list) = 0 THEN 0 ELSE Len(list[1]) + SumLen2(Tail(list))

getFoundationScore(foundations) == SumLen2(foundations) * 2

\* row.indexOf(char): the 0-based index of the first occurrence, or -1
indexOf(row, char) ==
    IF \E i \in 1..Len(row) : row[i] = char
    THEN (CHOOSE i \in 1..Len(row) : row[i] = char /\ \A j \in 1..(i - 1) : row[j] # char) - 1
    ELSE -1

RECURSIVE SumOf(_, _)
SumOf(f(_), n) == IF n = 0 THEN 0 ELSE f(n) + SumOf(f, n - 1)

\* topCard is the whole foundation string, and getSolverValue reads its charCodeAt(0)
getAccessibilityScore(rows, foundations) ==
    LET perFoundation(k) ==
            LET topCard == foundations[k]
                suit == k - 1
                nextValue == IF Len(topCard) > 0 THEN jsGetSolverValue(topCard[1]) + 1 ELSE 0
                nextCardChar == (nextValue * 4) + suit + Char0
                perRow(r) ==
                    IF indexOf(rows[r], nextCardChar) # -1
                    THEN 0 - ((Len(rows[r]) - indexOf(rows[r], nextCardChar) - 1) * 2)
                    ELSE 0
            IN  IF Len(topCard) = 0 \/ jsGetSolverValue(topCard[1]) < 12
                THEN SumOf(perRow, Len(rows))
                ELSE 0
    IN  SumOf(perFoundation, Len(foundations))

\* Math.floor(x * 0.7) in double arithmetic, for the even x in 0..104
FloorSevenTenths(x) == IF x = 90 THEN 62 ELSE (7 * x) \div 10

Clamp(score) == IF score < 0 THEN 0 ELSE IF score > 99 THEN 99 ELSE score

\* getStateScore of the queue getQueueForWorker(id) returns
jsGetStateScore(id, state) ==
    LET rows == jsRows(state)
        foundations == jsFoundations(state)
    IN  IF id = 2 THEN 0
        ELSE IF id = 3 THEN getAccessibilityScore(rows, foundations) + 40
        ELSE IF id = 4
             THEN Clamp((getAccessibilityScore(rows, foundations) + 40)
                        + FloorSevenTenths(getFoundationScore(foundations)))
        ELSE getFoundationScore(foundations)

\* the bucket BaseQueue.push files the state in
Bucket(id, state) == Clamp(jsGetStateScore(id, state))

\* BaseQueue.push: the state filed in its bucket, behind the states pushed before
Push(id, q, state) == Append(q, [bucket |-> Bucket(id, state), state |-> state])

RECURSIVE PushAll(_, _, _)
PushAll(id, q, states) ==
    IF Len(states) = 0 THEN q
    ELSE PushAll(id, Push(id, q, states[1]), Tail(states))

\* BaseQueue.pop: the position of the oldest state of the highest non-empty bucket
PopIndex(q) ==
    CHOOSE i \in 1..Len(q) :
        /\ \A j \in 1..Len(q) : q[j].bucket <= q[i].bucket
        /\ \A j \in 1..(i - 1) : q[j].bucket < q[i].bucket

RemoveAt(q, i) == SubSeq(q, 1, i - 1) \o SubSeq(q, i + 1, Len(q))

(***************************************************************************)
(* The deals: shuffle may produce any order of cardDeck; the model draws   *)
(* the orders i -> (52 - 2k) * i mod 53 of the deck positions 1..52, the   *)
(* first of which is the deck reversed, dealt as dealStreetsAlleys deals.  *)
(***************************************************************************)
JsShuffled(k) == [i \in 1..52 |-> cardDeck[((JsMultiplier - (2 * (k % 26))) * i) % 53]]

\* the first four piles hold 7 cards, the last four 6
PileStart(r) == IF r <= 4 THEN 7 * r ELSE 28 + (6 * (r - 4))     \* r is 0-based
PileLen(r) == IF r < 4 THEN 7 ELSE 6

JsDeal(k) ==
    Join([r \in 1..8 |->
            [j \in 1..PileLen(r - 1) |-> jsCardToSolver(JsShuffled(k)[PileStart(r - 1) + j])]],
         Pipe) \o <<Underscore>>

\* an order shuffle can leave the deck in: the clubs lie in order on the last
\* rows, the Ace under five diamonds that can be moved off it one by one
JsStackedDeck ==
    <<<<"A", "D">>, <<"2", "D">>, <<"3", "D">>, <<"6", "D">>, <<"7", "D">>, <<"9", "D">>, <<"K", "D">>,
      <<"A", "S">>, <<"2", "S">>, <<"3", "S">>, <<"4", "S">>, <<"5", "S">>, <<"6", "S">>, <<"6", "H">>,
      <<"7", "S">>, <<"9", "S">>, <<"T", "S">>, <<"J", "S">>, <<"Q", "S">>, <<"K", "S">>, <<"8", "H">>,
      <<"A", "H">>, <<"2", "H">>, <<"3", "H">>, <<"4", "H">>, <<"5", "H">>, <<"7", "H">>, <<"8", "S">>,
      <<"7", "C">>, <<"6", "C">>, <<"5", "C">>, <<"4", "C">>, <<"3", "C">>, <<"2", "C">>,
      <<"K", "C">>, <<"Q", "C">>, <<"J", "C">>, <<"T", "C">>, <<"9", "C">>, <<"8", "C">>,
      <<"A", "C">>, <<"4", "D">>, <<"5", "D">>, <<"T", "D">>, <<"J", "D">>, <<"Q", "D">>,
      <<"9", "H">>, <<"T", "H">>, <<"J", "H">>, <<"Q", "H">>, <<"K", "H">>, <<"8", "D">>>>

JsStackedDeal ==
    Join([r \in 1..8 |->
            [j \in 1..PileLen(r - 1) |-> jsCardToSolver(JsStackedDeck[PileStart(r - 1) + j])]],
         Pipe) \o <<Underscore>>

\* the dealt games a search is started on
JsStarts == {JsDeal(k) : k \in 0..(JsDeals - 1)} \cup {JsStackedDeal}

(***************************************************************************)
(* The search worker.                                                      *)
(***************************************************************************)
isComplete(nextState) ==
    Cardinality({r \in 1..Len(jsRows(nextState)) : Len(jsRows(nextState)[r]) = 0}) >= 3

RECURSIVE UnshiftPath(_, _, _)
\* while (state !== null) { path.unshift(state); state = pathParent.get(state); }
UnshiftPath(map, state, path) ==
    IF state = JsNull THEN path
    ELSE UnshiftPath(map, map[state], <<state>> \o path)

PathParentData == [type |-> "pathParentData", size |-> Cardinality(DOMAIN pathParent),
                   path |-> <<>>]

\* the states of the list for which pathParent.has(state) is false
Unvisited(map, list) == SelectSeq(list, LAMBDA x : x \notin DOMAIN map)

\* the map after pathParent.set(state, parent) for every state of the list
SetAll(map, list, parent) ==
    [key \in DOMAIN map \cup {list[e] : e \in 1..Len(list)} |->
        IF key \in DOMAIN map THEN map[key] ELSE parent]

\* the moves of the list a worker is handed when the moves are dealt out in turn
Share(moves, wid) ==
    LET first == ((wid - 1) % workerCount) + 1
        count == IF Len(moves) < first THEN 0 ELSE ((Len(moves) - first) \div workerCount) + 1
    IN  [j \in 1..count |-> moves[first + ((j - 1) * workerCount)]]

InitJs ==
    /\ pathParent = <<>> /\ gameQueue = <<>> /\ workerId = 0 /\ iterations = 0
    /\ timeout = FALSE /\ jspc = "idle" /\ posted = <<>>
    /\ IdleNext /\ IdleSolved /\ IdleStore /\ IdleCodec /\ IdlePool /\ IdlePath /\ IdleDecode /\ IdleMoves /\ IdleQueue /\ IdleSteal /\ IdleProcess /\ IdleCard /\ IdleFill /\ IdlePw /\ IdleMcts

\* onmessage, type "init", up to the call of processQueue
OnInit ==
    /\ jspc = "idle"
    /\ \E dealt \in JsStarts, wid \in 1..workerCount, t \in BOOLEAN, own \in BOOLEAN :
        LET allInitialMoves == getInitialMoves(dealt)
            initialMoves == IF own THEN Share(allInitialMoves, wid) ELSE allInitialMoves
        IN  /\ workerId' = wid
            /\ timeout' = t
            /\ iterations' = 0
            /\ pathParent' = [s \in Range(allInitialMoves) |-> JsNull]
            /\ gameQueue' = PushAll(wid, <<>>, initialMoves)
            /\ IF Len(initialMoves) = 0
               THEN /\ jspc' = "returned"
                    /\ posted' = Append(posted,
                                    [type |-> "pathParentData",
                                     size |-> Cardinality(Range(allInitialMoves)),
                                     path |-> <<>>])
               ELSE /\ jspc' = "processing"
                    /\ posted' = posted
    /\ UNCHANGED <<varsNext, varsSolved, varsStore, varsCodec, varsPool, varsPath, varsDecode, varsMoves, varsQueue, varsSteal, varsProcess, varsCard, varsFill, varsPw, varsMcts>>

\* the position of the first state of the list that is complete, or one past the list
FirstComplete(list) ==
    LET complete == {c \in 1..Len(list) : isComplete(list[c])}
    IN  IF complete = {} THEN Len(list) + 1
        ELSE CHOOSE c \in complete : \A d \in complete : c <= d

\* one iteration of the while loop of processQueue
ProcessQueueStep ==
    /\ jspc = "processing"
    /\ Len(gameQueue) > 0
    /\ iterations < MaxIterations
    /\ \E at \in {PopIndex(gameQueue)} :
       \E currentState \in {gameQueue[at].state} :
       \E nextStates \in {nextSolverStates(currentState)} :
       \E stop \in {FirstComplete(nextStates)} :
       \E unvisited \in {Unvisited(pathParent, SubSeq(nextStates, 1, stop - 1))} :
       \E newParent \in {SetAll(pathParent, unvisited, currentState)} :
           /\ iterations' = iterations + 1
           /\ pathParent' = newParent
           /\ gameQueue' = PushAll(workerId, RemoveAt(gameQueue, at), unvisited)
           /\ IF stop > Len(nextStates)
              THEN jspc' = "processing" /\ posted' = posted
              ELSE IF nextStates[stop] \in DOMAIN newParent
              THEN /\ jspc' = "returned"
                   /\ posted' = Append(posted,
                                   [type |-> "solution", size |-> 0,
                                    path |-> UnshiftPath(newParent, nextStates[stop], <<>>)])
              \* pathParent.get of a state that is no key is undefined, which is
              \* not null: the loop unshifts undefined for ever
              ELSE jspc' = "unshifting" /\ posted' = posted
    /\ UNCHANGED <<workerId, timeout>>
    /\ UNCHANGED <<varsNext, varsSolved, varsStore, varsCodec, varsPool, varsPath, varsDecode, varsMoves, varsQueue, varsSteal, varsProcess, varsCard, varsFill, varsPw, varsMcts>>

\* the timeout check at the head of the loop finds the time elapsed
ProcessQueueTimeout ==
    /\ jspc = "processing"
    /\ Len(gameQueue) > 0
    /\ timeout
    /\ jspc' = "returned"
    /\ posted' = Append(posted, PathParentData)
    /\ UNCHANGED <<pathParent, gameQueue, workerId, iterations, timeout>>
    /\ UNCHANGED <<varsNext, varsSolved, varsStore, varsCodec, varsPool, varsPath, varsDecode, varsMoves, varsQueue, varsSteal, varsProcess, varsCard, varsFill, varsPw, varsMcts>>

\* the loop ends with the queue empty
ProcessQueueEnd ==
    /\ jspc = "processing"
    /\ Len(gameQueue) = 0
    /\ jspc' = "returned"
    /\ posted' = Append(posted, PathParentData)
    /\ UNCHANGED <<pathParent, gameQueue, workerId, iterations, timeout>>
    /\ UNCHANGED <<varsNext, varsSolved, varsStore, varsCodec, varsPool, varsPath, varsDecode, varsMoves, varsQueue, varsSteal, varsProcess, varsCard, varsFill, varsPw, varsMcts>>

\* onmessage, type "getPathParentData", handled once the worker is back in its
\* event loop
OnGetPathParentData ==
    /\ jspc = "returned"
    /\ Len(posted) < MaxPosted
    /\ posted' = Append(posted, PathParentData)
    /\ UNCHANGED <<pathParent, gameQueue, workerId, iterations, timeout, jspc>>
    /\ UNCHANGED <<varsNext, varsSolved, varsStore, varsCodec, varsPool, varsPath, varsDecode, varsMoves, varsQueue, varsSteal, varsProcess, varsCard, varsFill, varsPw, varsMcts>>

NextJs ==
    \/ OnInit
    \/ ProcessQueueStep
    \/ ProcessQueueTimeout
    \/ ProcessQueueEnd
    \/ OnGetPathParentData

SpecJs == InitJs /\ [][NextJs]_vars

(***************************************************************************)
(* Visited stores and row order.                                           *)
(***************************************************************************)
\* how often each row occurs among the rows
RowBag(rows) ==
    [r \in {rows[i] : i \in 1..Len(rows)} |-> Cardinality({i \in 1..Len(rows) : rows[i] = r})]

\* the state text behind its first "_": the foundations
AfterRows(state) == SubSeq(state, SepAt(state, Underscore, 1) + 1, Len(state))

\* two states have the same layout when their rows are the same up to their
\* order and their foundations are the same
LayoutOf(state) == <<RowBag(Split(Split(state, Underscore)[1], Pipe)), AfterRows(state)>>

\* C11: stateHistory (Go) and pathParent (JS worker) never hold two distinct
\* entries whose layouts differ only by a permutation of the rows.
C11_NoPermutedEntries ==
    /\ Cardinality({LayoutOf(s) : s \in DOMAIN pathParent}) = Cardinality(DOMAIN pathParent)
    /\ Cardinality({LayoutOf(s) : s \in DOMAIN stateHistory})
           = Cardinality(DOMAIN stateHistory)

(***************************************************************************)
(* Moves to the foundations in the JS search.                              *)
(***************************************************************************)
\* the state the worker expands next
NextPopped == gameQueue[PopIndex(gameQueue)].state

\* the foundation piles a state text holds: its non-empty "_" segments behind the rows
PilesOf(state) == SelectNonEmpty(Tail(Split(state, Underscore)))

\* nextSolverStates(state) holds a state in which the top card of the row has left
\* its row and has entered no other row
OffersFoundationMove(state, fromRow) ==
    \E next \in Range(nextSolverStates(state)) :
        jsRows(next) = [jsRows(state) EXCEPT ![fromRow] = Front(jsRows(state)[fromRow])]

\* the rule for the top card c of the row: c is an Ace and no pile holds its suit,
\* or the pile of its suit ends one rank below c
FoundationAccepts(state, fromRow) ==
    LET c == Last(jsRows(state)[fromRow])
        piles == PilesOf(state)
        own == {p \in 1..Len(piles) : jsGetSolverSuit(piles[p][1]) = jsGetSolverSuit(c)}
    IN  \/ jsGetSolverValue(c) = 0 /\ own = {}
        \/ \E p \in own : jsGetSolverValue(Last(piles[p])) + 1 = jsGetSolverValue(c)

\* C12: for every state s the JS worker search reaches and every non-empty row
\* with top card c, nextSolverStates(s) contains the state in which c has moved
\* to a foundation exactly when c is an Ace whose suit has an empty foundation
\* or the top of the foundation of c's suit is one rank below c.
C12_FoundationMoveRule ==
    (jspc = "processing" /\ Len(gameQueue) > 0) =>
        \A popped \in {NextPopped} : \A fromRow \in 1..Len(jsRows(popped)) :
            Len(jsRows(popped)[fromRow]) > 0 =>
                (OffersFoundationMove(popped, fromRow) <=> FoundationAccepts(popped, fromRow))

(***************************************************************************)
(* The moves generateLegalMoves offers.                                    *)
(***************************************************************************)
\* the rule for a move between rows, both 0-based: the source holds a card, and
\* the target either ends one rank above that card or is the empty row of
\* lowest index
RowMoveRule(g, src, dst) ==
    /\ Len(g[src + 1]) > 0
    /\ \/ /\ Len(g[dst + 1]) > 0
          /\ Last(g[dst + 1]).Value = Last(g[src + 1]).Value + 1
       \/ /\ Len(g[dst + 1]) = 0
          /\ \A before \in 0..(dst - 1) : Len(g[before + 1]) > 0

\* the empty rows the moves offer to the source row
EmptyTargets(g, offered, src) ==
    {dst \in 0..(NumRows - 1) :
        Len(g[dst + 1]) = 0 /\ [From |-> src, To |-> dst] \in offered}

\* C13: generateLegalMoves returns the row-to-row move (from, to) exactly when
\* from is non-empty and either to is non-empty with a top card one rank above
\* the moved card, whatever the suits, or to is the empty row of lowest index;
\* no source row is offered more than one empty row.
C13_RowMovesExact ==
    \A offered \in {Range(generateLegalMoves(game))} :
        \A src \in 0..(NumRows - 1) :
            /\ \A dst \in 0..(NumRows - 1) :
                  ([From |-> src, To |-> dst] \in offered) <=> RowMoveRule(game, src, dst)
            /\ Cardinality(EmptyTargets(game, offered, src)) <= 1

\* a game some moves into its deal with several empty rows, in which a row is
\* offered the first of them, a row is offered a card of another suit one rank
\* above its own, and a row is offered no row holding cards
C13_Witness ==
    /\ nmoves > 0
    /\ Cardinality({e \in 1..NumRows : Len(game[e]) = 0}) >= 2
    /\ \E offered \in {Range(generateLegalMoves(game))} :
        /\ \E src \in 0..(NumRows - 1) :
              EmptyTargets(game, offered, src) = {firstEmptyRow(game)}
        /\ \E src \in 0..(NumRows - 1), dst \in 0..(NumRows - 1) :
              /\ Len(game[dst + 1]) > 0
              /\ [From |-> src, To |-> dst] \in offered
              /\ Last(game[dst + 1]).Suit # Last(game[src + 1]).Suit
        /\ \E src \in 0..(NumRows - 1) :
              /\ Len(game[src + 1]) > 0
              /\ \A dst \in 0..(NumRows - 1) :
                    Len(game[dst + 1]) > 0 => [From |-> src, To |-> dst] \notin offered

(***************************************************************************)
(* Games reached from a full deal.                                         *)
(***************************************************************************)
\* the cards in the rows
CardsInRows(g) == {g[row][col] : <<row, col>> \in
                      {<<row, col>> \in (1..NumRows) \X (1..RowCap) : col <= Len(g[row])}}

\* the values of the suit that are in no row
AbsentValues(g, suit) ==
    (1..13) \ {card.Value : card \in {held \in CardsInRows(g) : held.Suit = suit}}

\* no card is in the rows twice, and of each suit the rows lack the values 1..k
\* for some k
RowsAreDeckRemainder(g) ==
    /\ Cardinality(CardsInRows(g)) = CountCardsInRows(g)
    /\ \A suit \in {"H", "D", "C", "S"} :
          \E upTo \in 0..13 : AbsentValues(g, suit) = 1..upTo

\* from g to h the top card of one row has left it, and has entered at most one
\* other row, on top; nothing else has changed
OneCardRelocated(g, h) ==
    \E src \in 1..NumRows :
        /\ Len(g[src]) > 0
        /\ h[src] = Front(g[src])
        /\ \/ \A other \in (1..NumRows) \ {src} : h[other] = g[other]
           \/ \E dst \in (1..NumRows) \ {src} :
                 /\ h[dst] = Append(g[dst], Last(g[src]))
                 /\ \A other \in (1..NumRows) \ {src, dst} : h[other] = g[other]

\* C14: in every game reached from a full 52-card deal by applyMove of moves of
\* generateLegalMoves no card is in the rows twice and of each suit the cards
\* absent from the rows are the values 1..k for some k in 0..13; each step
\* relocates exactly one card, the top card of its source row.
C14_DeckRemainder ==
    /\ [](FromFullDeal => RowsAreDeckRemainder(game))
    /\ [][(FromFullDeal /\ nmoves' # nmoves) => OneCardRelocated(game, game')]_vars

\* a full deal after a move to the foundation and a move onto another row
C14_Witness ==
    /\ FromFullDeal
    /\ nmoves = 2 /\ nswaps = 0
    /\ CountCardsInRows(game) = 51
    /\ \E suit \in {"H", "D", "C", "S"} : AbsentValues(game, suit) = {1}
    /\ \E row \in 1..NumRows : Len(game[row]) = 8

(***************************************************************************)
(* SpecPath: reconstructPath on the records the worker offers.  The store  *)
(* holds the record of line 543 for the deal and, for each later state of  *)
(* the chain, the record processNextState offers for it (line 321), taken  *)
(* as installed.                                                           *)
(***************************************************************************)
PathDeals == 3      \* deals the chains start from
MaxChain == 2       \* parent links of a chain beyond the initial state

\* the record of the n-th state of the chain
ChainRecord(states, n) ==
    IF n = 1
    THEN [parentState |-> states[1], move |-> "Initial state", depth |-> 0, ptr |-> 0]
    ELSE [parentState |-> states[n - 1], move |-> MoveText(states[n - 1], states[n]),
          depth |-> getStateScore(states[n - 1]) + 1, ptr |-> 0]

ChainStore(states) ==
    [hash \in {HashOfState(states[n]) : n \in 1..Len(states)} |->
        ChainRecord(states, CHOOSE n \in 1..Len(states) : HashOfState(states[n]) = hash)]

RECURSIVE WalkEnd(_, _)
\* which break ends the loop of reconstructPath
WalkEnd(cur, visited) ==
    IF HashOfState(cur) \in visited THEN "cycle"
    ELSE IF ~MapLoad(stateHistory, HashOfState(cur)).exists THEN "missing"
    ELSE IF stateHistory[HashOfState(cur)].parentState = <<>> THEN "root"
    ELSE WalkEnd(stateHistory[HashOfState(cur)].parentState, visited \cup {HashOfState(cur)})

InitPath ==
    /\ \E deal \in 0..(PathDeals - 1) : chain = <<ToCompact(Deal(deal))>>
    /\ stateHistory = ChainStore(chain)
    /\ tpc = <<>> /\ targs = <<>> /\ texisting = <<>> /\ tret = <<>>
    /\ rpath = <<>> /\ rpc = "ready"
    /\ IdleNext /\ IdleSolved /\ IdleCodec /\ IdlePool /\ IdleJs /\ IdleDecode /\ IdleMoves /\ IdleQueue /\ IdleSteal /\ IdleProcess /\ IdleCard /\ IdleFill /\ IdlePw /\ IdleMcts

\* a successor of the last state of the chain is recorded with it as parent
RecordNext ==
    /\ rpc = "ready"
    /\ Len(chain) <= MaxChain
    /\ \E successor \in Range(NextStates(chain[Len(chain)])) \ Range(chain) :
        /\ chain' = Append(chain, successor)
        /\ stateHistory' = ChainStore(Append(chain, successor))
    /\ UNCHANGED <<rpath, rpc, tpc, targs, texisting, tret>>
    /\ UNCHANGED <<varsNext, varsSolved, varsCodec, varsPool, varsJs, varsDecode, varsMoves, varsQueue, varsSteal, varsProcess, varsCard, varsFill, varsPw, varsMcts>>

\* path := reconstructPath(current), for the last state of the chain
Reconstruct ==
    /\ rpc = "ready"
    /\ rpath' = reconstructPath(chain[Len(chain)])
    /\ rpc' = "returned"
    /\ UNCHANGED <<chain, varsNext, varsSolved, varsStore, varsCodec, varsPool, varsJs, varsDecode, varsMoves, varsQueue, varsSteal, varsProcess, varsCard, varsFill, varsPw, varsMcts>>

NextPath == RecordNext \/ Reconstruct

SpecPath == InitPath /\ [][NextPath]_vars

\* the moves m1 .. mn recorded along the chain
ChainMoves == [n \in 1..(Len(chain) - 1) |-> stateHistory[HashOfState(chain[n + 1])].move]

\* C15: for a state whose records form the chain s0 (initial), s1, .., sn, the
\* record of si naming s(i-1) as parent and mi as move, reconstructPath returns
\* exactly m1, .., mn in this order, one entry per parent link.
C15_PathOfChain == rpc = "returned" => rpath = ChainMoves

\* C17: when the walk of reconstructPath comes to a state it has visited, the run
\* ends with a fatal error: reconstructPath does not return a path after its
\* cycle guard has triggered.
C17_CycleIsFatal ==
    (rpc # "ready" /\ WalkEnd(chain[Len(chain)], {}) = "cycle") => rpc = "fatal"

(***************************************************************************)
(* The parent links of the records.                                        *)
(***************************************************************************)
RECURSIVE ReachesInitial(_, _)
\* following parentState from the state leads to the initial state without
\* coming to a state twice
ReachesInitial(cur, seen) ==
    IF cur = initial THEN TRUE
    ELSE IF cur \in seen \/ ~MapLoad(stateHistory, HashOfState(cur)).exists THEN FALSE
    ELSE ReachesInitial(stateHistory[HashOfState(cur)].parentState, seen \cup {cur})

\* the records made for the initial state: the one stored and those the callers
\* inside tryAddState hold for it
RootRecords ==
    {stateHistory[hash] : hash \in {HashOfState(initial)} \cap DOMAIN stateHistory}
    \cup {NewHistory(caller) : caller \in
            {inside \in DOMAIN targs : tpc[inside] # "idle" /\ targs[inside].state = initial}}

\* C16: in every reachable state the record of the initial state has no parent,
\* and following the parent links from any recorded state reaches the initial
\* state in finitely many steps without visiting a state twice.
C16_RootedHistory ==
    /\ \A record \in RootRecords : record.parentState = <<>>
    /\ \A hash \in DOMAIN stateHistory :
          ReachesInitial(stateHistory[hash].parentState, {})

(***************************************************************************)
(* SpecDecode: StreetsGame.FromHash applied to strings that need not be    *)
(* the hash of any game.  An input is the packing, as add6Bits packs, of a *)
(* run of delimiters, a run of cards and a run of delimiters, with up to   *)
(* one byte taken off its end: the empty string, strings of up to          *)
(* MaxDelimiters + TrailDelimiters delimiters, rows of RowCap - 1 to       *)
(* RowCap + 2 cards, and strings that stop 2 or 4 bits into a code.        *)
(***************************************************************************)
MaxDelimiters == 8
TrailDelimiters == 1
MaxCut == 1
RowLengths == {0, 1, 2, RowCap - 1, RowCap, RowCap + 1, RowCap + 2}
FillCard == [Value |-> 2, Suit |-> "H"]
LastCards == {[Value |-> 1, Suit |-> "H"], [Value |-> 13, Suit |-> "S"]}

CodeStream(lead, len, last, trail) ==
    [at \in 1..lead |-> Delimiter]
    \o [at \in 1..len |-> (IF at = len THEN cardValue(last) ELSE cardValue(FillCard)) % 64]
    \o [at \in 1..trail |-> Delimiter]

\* the bytes add6Bits and the final padding make of a stream of 6-bit values
PackBytes(stream) == [j \in 1..((6 * Len(stream) + 7) \div 8) |-> ResultByte(stream, j)]

CutBytes(bytes, cut) == SubSeq(bytes, 1, Len(bytes) - cut)

DecodeInputs ==
    {CutBytes(PackBytes(CodeStream(lead, len, last, trail)), cut) :
        lead \in 0..MaxDelimiters, len \in RowLengths, last \in LastCards,
        trail \in 0..TrailDelimiters, cut \in 0..MaxCut}

InitDecode ==
    /\ hashInput \in DecodeInputs
    /\ decoded = <<>>
    /\ dpc = "ready"
    /\ IdleNext /\ IdleSolved /\ IdleStore /\ IdleCodec /\ IdlePool /\ IdleJs /\ IdlePath /\ IdleMoves /\ IdleQueue /\ IdleSteal /\ IdleProcess /\ IdleCard /\ IdleFill /\ IdlePw /\ IdleMcts

\* g.FromHash(hash)
Decode ==
    /\ dpc = "ready"
    /\ decoded' = FromHash(hashInput)
    /\ dpc' = "decoded"
    /\ UNCHANGED hashInput
    /\ UNCHANGED <<varsNext, varsSolved, varsStore, varsCodec, varsPool, varsJs, varsPath, varsMoves, varsQueue, varsSteal, varsProcess, varsCard, varsFill, varsPw, varsMcts>>

NextDecode == Decode

SpecDecode == InitDecode /\ [][NextDecode]_vars

\* the input stops 2 or 4 bits into a 6-bit code
EndsPartway(input) == (8 * Len(input)) % 6 # 0

\* the input ends, on its last bit, with a code of six zero bits: the value
\* FromHash reads as the end of the data and not as a card
EndMark(input) ==
    /\ Len(input) > 0
    /\ ~EndsPartway(input)
    /\ SixBits(input, (8 * Len(input)) \div 6) = 0

\* the whole codes of the input that stand for a card or a delimiter
CodeCount(input) == ((8 * Len(input)) \div 6) - (IF EndMark(input) THEN 1 ELSE 0)

DelimitersIn(input) == {at \in 1..CodeCount(input) : SixBits(input, at) = Delimiter}

\* RowCap + 1 card codes in a row with no delimiter among them
HasLongRow(input) ==
    \E first \in 1..(CodeCount(input) - RowCap) :
        \A at \in first..(first + RowCap) : SixBits(input, at) # Delimiter

\* C18: FromHash returns an error whenever its input is empty, holds more
\* than 7 row delimiters, holds more than 19 card codes in one row, or stops
\* partway through a 6-bit code.
C18_DecodeErrors ==
    dpc = "decoded" =>
        \A offered \in {hashInput} :
            (\/ Len(offered) = 0
             \/ Cardinality(DelimitersIn(offered)) > NumRows - 1
             \/ HasLongRow(offered)
             \/ EndsPartway(offered))
            => decoded.err # ""

\* FromHash has refused a string of whole codes and at most 7 delimiters for
\* its row of 20 cards
C18_Witness ==
    /\ dpc = "decoded"
    /\ HasLongRow(hashInput)
    /\ ~EndsPartway(hashInput)
    /\ Cardinality(DelimitersIn(hashInput)) <= NumRows - 1
    /\ decoded.err = "too many cards in row"

(***************************************************************************)
(* The outcome main prints, under SpecWorkers.                             *)
(***************************************************************************)
NoSolutionReports == {"No solution found", "All workers finished with no solution"}

Started == {worker \in Slots : wpc[worker] # "unstarted"}

\* C20: under fair scheduling the search of a layout without reachable
\* solution terminates: every worker eventually exits with an empty queue
\* and main reports the no-solution outcome.
C20_SearchTerminates ==
    <>(/\ Started # {}
       /\ \A worker \in Started : wpc[worker] = "exited" /\ queue[worker] = <<>>
       /\ report \in NoSolutionReports)

(***************************************************************************)
(* The depth of the records, under SpecPath.  The worker hands             *)
(* processNextState the priority of the popped item as depth (line 591),   *)
(* so the record offered for a child carries getStateScore(parent) + 1.    *)
(***************************************************************************)
RecordOf(state) == stateHistory[HashOfState(state)]

\* C26: the depth recorded for a state is the number of moves on its parent
\* chain back to the initial state: 0 for the initial state, and for every
\* child one more than the recorded depth of the parent that was expanded.
C26_DepthIsChainLength ==
    /\ RecordOf(chain[1]).depth = 0
    /\ \A link \in 2..Len(chain) :
          /\ RecordOf(chain[link]).depth = RecordOf(chain[link - 1]).depth + 1
          /\ RecordOf(chain[link]).depth = link - 1

(***************************************************************************)
(* SpecMoves: the two move generators of the solvers, CompactState         *)
(* .NextStates (Go) and nextSolverStates (JS), applied to the same game.   *)
(* The games: each suit has its low cards on its foundation and the rest   *)
(* in one row, the King at the bottom; for the suits of spread the top     *)
(* card of that row lies alone in a row of its own, so that 0 to 4 of the  *)
(* 8 rows are empty.                                                       *)
(***************************************************************************)
MoveGap == 2

MoveGame(h, spread) ==
    [Rows |-> [row \in 1..8 |->
                  IF row <= 4
                  THEN (IF row \in spread THEN Front(GameOf(h).Rows[row])
                        ELSE GameOf(h).Rows[row])
                  ELSE IF (row - 4) \in spread THEN <<Last(GameOf(h).Rows[row - 4])>>
                  ELSE <<>>],
     Foundation |-> GameOf(h).Foundation]

\* the card as solver.js names it: rank and suit, the ten written T
JsCard(card) == <<jsRanks[valueMap[card.Value] + 1], card.Suit>>

JsChars(cards) == [at \in 1..Len(cards) |-> jsCardToSolver(JsCard(cards[at]))]

\* the string nextSolverStates builds for rows and foundations
JsCompact(g) ==
    Join([row \in 1..Len(g.Rows) |-> JsChars(g.Rows[row])], Pipe) \o <<Underscore>>
    \o JoinNonEmpty([pile \in 1..Len(g.Foundation) |-> JsChars(g.Foundation[pile])])

InitMoves ==
    /\ \E h \in [1..4 -> (12 - MoveGap)..11], spread \in SUBSET (1..4) :
          mgame = MoveGame(h, spread)
    /\ goNext = <<>> /\ jsNext = <<>> /\ mpc = "ready"
    /\ IdleNext /\ IdleSolved /\ IdleStore /\ IdleCodec /\ IdlePool /\ IdleJs /\ IdlePath /\ IdleDecode /\ IdleQueue /\ IdleSteal /\ IdleProcess /\ IdleCard /\ IdleFill /\ IdlePw /\ IdleMcts

\* state.NextStates() and nextSolverStates(solverStr)
Generate ==
    /\ mpc = "ready"
    /\ goNext' = NextStates(ToCompact(mgame))
    /\ jsNext' = nextSolverStates(JsCompact(mgame))
    /\ mpc' = "generated"
    /\ UNCHANGED mgame
    /\ UNCHANGED <<varsNext, varsSolved, varsStore, varsCodec, varsPool, varsJs, varsPath, varsDecode, varsQueue, varsSteal, varsProcess, varsCard, varsFill, varsPw, varsMcts>>

NextMoves == Generate

SpecMoves == InitMoves /\ [][NextMoves]_vars

EmptyRowsOf(g) == {row \in 1..Len(g.Rows) : Len(g.Rows[row]) = 0}

\* the empty rows of mgame that hold a card in one of the states offered
GoFilled == {row \in EmptyRowsOf(mgame) :
                \E next \in Range(goNext) : Len(ParseRows(next)[row]) > 0}
JsFilled == {row \in EmptyRowsOf(mgame) :
                \E next \in Range(jsNext) : Len(jsRows(next)[row]) > 0}

\* C27: when a state has more than one empty row, NextStates (Go) and
\* nextSolverStates (JS) offer moves into the first empty row only, never
\* into the other empty rows.
C27_FirstEmptyRowOnly ==
    (mpc = "generated" /\ Cardinality(EmptyRowsOf(mgame)) > 1) =>
        \A offered \in {GoFilled \cup JsFilled} :
            offered \subseteq {Min(EmptyRowsOf(mgame))}

(***************************************************************************)
(* The card bytes and the separators, under SpecNext.                      *)
(***************************************************************************)
\* the rows ToCompact wrote into the dealt state, all 52 cards in 8 rows, as
\* NextStates reads them back
DealtRowsRecovered ==
    steps = 0 => (Len(ParseRows(cstate)) = 8 /\ SumLen(ParseRows(cstate)) = 52)

\* C28: cardToSolver maps the 52 cards to 52 distinct bytes, none of them the
\* row separator "|" or the section separator "_", so that splitting a
\* CompactState on the separators recovers the rows that were encoded.
C28_BytesAvoidSeparators ==
    /\ Cardinality(CardBytes) = 52
    /\ CardBytes \cap {Pipe, Underscore} = {}
    /\ DealtRowsRecovered

(***************************************************************************)
(* The score of a state, under SpecNext.  The cards of a state string are  *)
(* counted where they stand: the rows are the text up to the end of the    *)
(* eighth row, the foundations are what follows.  The byte 95 standing     *)
(* among the first seven rows is the 5 of clubs, not a separator.          *)
(***************************************************************************)
PipePlaces(state) == {at \in 1..Len(state) : state[at] = Pipe}

\* the place of the pipe that closes the seventh row
SeventhPipe(state) ==
    CHOOSE at \in PipePlaces(state) :
        Cardinality({before \in PipePlaces(state) : before < at}) = 6

\* the 5 of clubs lies in one of the first seven rows
FiveOfClubsInRows(state) ==
    /\ Cardinality(PipePlaces(state)) = 7
    /\ \E at \in 1..SeventhPipe(state) : state[at] = Underscore

\* the place of the separator that ends the eighth row, or the end of the string
RowsEnd(state) ==
    Min({at \in (SeventhPipe(state) + 1)..Len(state) : state[at] = Underscore}
        \cup {Len(state) + 1})

FoundationCardCount(state) ==
    Cardinality({at \in (RowsEnd(state) + 1)..Len(state) : state[at] # Underscore})

\* C29: for every state the Go search produces, getStateScore(state) is the
\* total number of cards on the foundations of that state.
C29_ScoreCountsFoundations ==
    \A produced \in {cstate} :
        FiveOfClubsInRows(produced) =>
            getStateScore(produced) = FoundationCardCount(produced)

(***************************************************************************)
(* SpecQueue: the two priority queues by themselves.  BaseQueue            *)
(* (queues.js) files a state in one of 100 buckets by its clamped score    *)
(* and pops from the highest non-empty bucket; WorkerState (solver.go)     *)
(* keeps a PriorityQueue through container/heap, whose Push appends and    *)
(* sifts up and whose Pop swaps the root with the last item, sifts down    *)
(* and removes the last item.  A state is stood for by its score: the      *)
(* value getStateScore returns for it (JS) or its priority (Go).           *)
(***************************************************************************)
MaxQueued == 4
NumBuckets == 100
RawScores == {-1, 0, 50, 99, 100}
Priorities == {0, 1, 2}

\* what a pop returned; turn tells a call from the call before it
NoJsPop == [value |-> 0, defined |-> FALSE, turn |-> 0]
NoGoPop == [item |-> NoItem, ok |-> FALSE, turn |-> 0]

\* Math.max(0, Math.min(99, Math.floor(score))), for a whole score
BucketOf(score) == IF score < 0 THEN 0 ELSE IF score > NumBuckets - 1 THEN NumBuckets - 1 ELSE score

\* the highest non-empty bucket: the loop of BaseQueue.pop
TopBucket(buckets) ==
    CHOOSE high \in DOMAIN buckets :
        /\ Len(buckets[high]) > 0
        /\ \A other \in DOMAIN buckets : other > high => Len(buckets[other]) = 0

\* the order of a heap that keeps the lowest priority at its root
LessMin(heap, a, b) == heap[a + 1].priority < heap[b + 1].priority
\* PriorityQueue.Less on 0-based indices of the heap array
Less(heap, a, b) == heap[a + 1].priority > heap[b + 1].priority

\* PriorityQueue.Swap
SwapItems(heap, a, b) == [heap EXCEPT ![a + 1] = heap[b + 1], ![b + 1] = heap[a + 1]]

RECURSIVE up(_, _)
\* container/heap: up(h, j)
up(heap, child) ==
    LET parent == (child - 1) \div 2
    IN  IF child <= 0 \/ parent = child \/ ~Less(heap, child, parent) THEN heap
        ELSE up(SwapItems(heap, parent, child), parent)

RECURSIVE down(_, _, _)
\* container/heap: down(h, i0, n)
down(heap, node, limit) ==
    LET left == (2 * node) + 1
        right == left + 1
        pick == IF right < limit /\ Less(heap, right, left) THEN right ELSE left
    IN  IF left >= limit THEN heap
        ELSE IF ~Less(heap, pick, node) THEN heap
        ELSE down(SwapItems(heap, node, pick), pick, limit)

\* heap.Push(&ws.queue, item)
heapPush(heap, item) == up(Append(heap, item), Len(heap))

\* heap.Pop(&ws.queue): the heap array left, and the item returned
heapPop(heap) ==
    LET last == Len(heap) - 1
        sifted == down(SwapItems(heap, 0, last), 0, last)
    IN  [heap |-> SubSeq(sifted, 1, last), item |-> sifted[last + 1]]

InitQueue ==
    /\ qside \in {"js", "go"}
    /\ queues = [bucket \in 0..(NumBuckets - 1) |-> <<>>]
    /\ size = 0 /\ jsPopped = NoJsPop
    /\ pq = <<>> /\ goPopped = NoGoPop
    /\ IdleNext /\ IdleSolved /\ IdleStore /\ IdleCodec /\ IdlePool /\ IdleJs /\ IdlePath /\ IdleSteal /\ IdleProcess /\ IdleCard /\ IdleFill /\ IdlePw /\ IdleMcts
    /\ IdleDecode /\ IdleMoves

\* BaseQueue.push(state)
JsPush ==
    /\ qside = "js" /\ size < MaxQueued
    /\ \E score \in RawScores :
          queues' = [queues EXCEPT ![BucketOf(score)] = Append(@, score)]
    /\ size' = size + 1
    /\ UNCHANGED <<qside, jsPopped, pq, goPopped>>
    /\ UNCHANGED <<varsNext, varsSolved, varsStore, varsCodec, varsPool, varsJs, varsPath, varsDecode, varsMoves, varsSteal, varsProcess, varsCard, varsFill, varsPw, varsMcts>>

\* BaseQueue.pop()
JsPop ==
    /\ qside = "js"
    /\ IF \E bucket \in DOMAIN queues : Len(queues[bucket]) > 0
       THEN /\ jsPopped' = [value |-> Head(queues[TopBucket(queues)]), defined |-> TRUE,
                             turn |-> 1 - jsPopped.turn]
            /\ queues' = [queues EXCEPT ![TopBucket(queues)] = Tail(@)]
            /\ size' = size - 1
       ELSE /\ jsPopped' = [value |-> 0, defined |-> FALSE, turn |-> 1 - jsPopped.turn]
            /\ UNCHANGED <<queues, size>>
    /\ UNCHANGED <<qside, pq, goPopped>>
    /\ UNCHANGED <<varsNext, varsSolved, varsStore, varsCodec, varsPool, varsJs, varsPath, varsDecode, varsMoves, varsSteal, varsProcess, varsCard, varsFill, varsPw, varsMcts>>

\* WorkerState.addToQueue(item)
GoPush ==
    /\ qside = "go" /\ Len(pq) < MaxQueued
    /\ \E priority \in Priorities :
          pq' = heapPush(pq, [state |-> <<>>, priority |-> priority])
    /\ UNCHANGED <<qside, queues, size, jsPopped, goPopped>>
    /\ UNCHANGED <<varsNext, varsSolved, varsStore, varsCodec, varsPool, varsJs, varsPath, varsDecode, varsMoves, varsSteal, varsProcess, varsCard, varsFill, varsPw, varsMcts>>

\* WorkerState.getNextState()
GoPop ==
    /\ qside = "go"
    /\ IF Len(pq) = 0
       THEN /\ goPopped' = [item |-> NoItem, ok |-> FALSE, turn |-> 1 - goPopped.turn]
            /\ pq' = pq
       ELSE /\ goPopped' = [item |-> heapPop(pq).item, ok |-> TRUE, turn |-> 1 - goPopped.turn]
            /\ pq' = heapPop(pq).heap
    /\ UNCHANGED <<qside, queues, size, jsPopped>>
    /\ UNCHANGED <<varsNext, varsSolved, varsStore, varsCodec, varsPool, varsJs, varsPath, varsDecode, varsMoves, varsSteal, varsProcess, varsCard, varsFill, varsPw, varsMcts>>

NextQueue == JsPush \/ JsPop \/ GoPush \/ GoPop

SpecQueue == InitQueue /\ [][NextQueue]_vars

\* the scores queued in BaseQueue, and their number
JsQueued(buckets) == UNION {Range(buckets[bucket]) : bucket \in DOMAIN buckets}
JsCount(buckets) ==
    Cardinality({place \in (DOMAIN buckets) \X (1..(MaxQueued + 1)) :
                    place[2] <= Len(buckets[place[1]])})

\* C30: a pop returns a state whose score is maximal among the states queued:
\* BaseQueue.pop (score clamped to 0..99) and getNextState never return a
\* state while a strictly higher-scored one stays queued, and report empty
\* only when no state is queued; BaseQueue.size is the number of queued states.
C30_PopReturnsMaximal ==
    /\ [](qside = "js" => size = JsCount(queues))
    /\ [][jsPopped' # jsPopped =>
            IF ~jsPopped'.defined THEN JsCount(queues) = 0
            ELSE /\ jsPopped'.value \in JsQueued(queues)
                 /\ JsCount(queues') = JsCount(queues) - 1
                 /\ \A left \in JsQueued(queues') :
                       BucketOf(left) <= BucketOf(jsPopped'.value)]_vars
    /\ [][goPopped' # goPopped =>
            IF ~goPopped'.ok THEN Len(pq) = 0
            ELSE /\ Len(pq') = Len(pq) - 1
                 /\ \A left \in Range(pq') : left.priority <= goPopped'.item.priority
                 /\ \E at \in 1..Len(pq) : pq[at] = goPopped'.item]_vars

\* a queue holding 4 states has returned the one of highest score, and states
\* of lower score stay queued: BaseQueue with the scores 50, 99 and 100 left
\* or popped, the heap with priorities 0 and 2
C30_Witness ==
    \/ /\ qside = "js" /\ jsPopped.defined /\ jsPopped.value = 100
       /\ 99 \in JsQueued(queues) /\ 50 \in JsQueued(queues) /\ size = 3
    \/ /\ qside = "go" /\ goPopped.ok /\ goPopped.item.priority = 2
       /\ Len(pq) = 3 /\ \E at \in 1..Len(pq) : pq[at].priority = 0

-----------------------------------------------------------------------------
\* Part 8. Work stealing, queue locks and worker spawning (solver.go 229-251,
\* 329-359, 533-617). The goroutines of worker() are followed lock by lock.
\* The run starts where worker 0 stands at the head of its loop with states
\* queued; the states are StateItems that are not solutions, and
\* processNextState queues any number of children for each of them.

StealSlots == 3
MaxRoutines == 3
StartItems == 3
MaxItems == 5
SpawnOver == 1
SplitBatch == 2
StealLeave == 1     \* line 570

WorkerSlots == 0..(StealSlots - 1)
Routines == 1..MaxRoutines
NoWork == [state |-> 0, priority |-> 0]
NotStarted == [id |-> 0, pc |-> "idle", item |-> NoWork, target |-> 0, stolen |-> FALSE,
               newQueue |-> <<>>, found |-> {}]

\* sync.Mutex: Lock() returns once no goroutine holds the lock
Lock(locks, slot, holder) == [locks EXCEPT ![slot] = holder]
StillLocked(locks, slot) == locks
Unlock(locks, slot) == [locks EXCEPT ![slot] = 0]

\* line 570: if targetState.queue.Len() > 1
canStealAny(heap) == Len(heap) > 0
canSteal(heap) == Len(heap) > StealLeave

\* lines 564-568: the next targetId of `range workerStates` that is not id
NextTarget(id, after) ==
    LET later == {slot \in WorkerSlots : slot > after /\ slot # id}
    IN  IF later = {} THEN StealSlots
        ELSE CHOOSE slot \in later : \A other \in later : slot <= other

RECURSIVE MoveItemsLosing(_, _, _)
MoveItemsLosing(own, newQueue, count) ==
    IF count >= SplitBatch \/ Len(own) = 0 THEN [own |-> own, newQueue |-> <<>>]
    ELSE MoveItemsLosing(heapPop(own).heap, newQueue, count + 1)

RECURSIVE MoveItems(_, _, _)
\* lines 342-345: for i := 0; i < 10000 && ws.queue.Len() > 0; i++
MoveItems(own, newQueue, count) ==
    IF count >= SplitBatch \/ Len(own) = 0 THEN [own |-> own, newQueue |-> newQueue]
    ELSE LET taken == heapPop(own)
         IN  MoveItems(taken.heap, heapPush(newQueue, taken.item), count + 1)

\* StateItem{nextState, score}: the states are numbered as they are made and
\* their scores alternate
NewItem(number) == [state |-> number, priority |-> number % 2]

RECURSIVE HeapOf(_)
\* the queue that holds the items 1..count, pushed in that order
HeapOf(count) ==
    IF count = 0 THEN <<>> ELSE heapPush(HeapOf(count - 1), NewItem(count))

InitSteal ==
    /\ \E count \in 1..StartItems :
          /\ wsQueue = [slot \in WorkerSlots |-> IF slot = 0 THEN HeapOf(count) ELSE <<>>]
          /\ made = count
    /\ wsLock = [slot \in WorkerSlots |-> 0]
    /\ routine = [g \in Routines |->
                    IF g = 1 THEN [NotStarted EXCEPT !.pc = "loop"] ELSE NotStarted]
    /\ wgCount = 1
    /\ IdleNext /\ IdleSolved /\ IdleStore /\ IdleCodec /\ IdlePool /\ IdleJs /\ IdlePath /\ IdleProcess /\ IdleCard /\ IdleFill /\ IdlePw /\ IdleMcts
    /\ IdleDecode /\ IdleMoves /\ IdleQueue

\* lines 561-568: item, ok := myState.getNextState(); the steal loop starts when !ok
GetNextState(g) ==
    /\ routine[g].pc = "loop"
    /\ wsLock[routine[g].id] = 0
    /\ IF Len(wsQueue[routine[g].id]) = 0
       THEN /\ \E first \in {NextTarget(routine[g].id, -1)} :
                 routine' = [routine EXCEPT ![g].pc = "stealLock", ![g].target = first,
                                            ![g].found = {routine[g].id}]
            /\ UNCHANGED wsQueue
       ELSE \E taken \in {heapPop(wsQueue[routine[g].id])} :
               /\ wsQueue' = [wsQueue EXCEPT ![routine[g].id] = taken.heap]
               /\ routine' = [routine EXCEPT ![g].pc = "expand", ![g].item = taken.item]
    /\ UNCHANGED <<wsLock, wgCount, made>>
    /\ UNCHANGED <<varsNext, varsSolved, varsStore, varsCodec, varsPool, varsJs, varsPath, varsDecode, varsMoves, varsQueue, varsProcess, varsCard, varsFill, varsPw, varsMcts>>

\* line 569: targetState.lock.Lock()
StealLock(g) ==
    /\ routine[g].pc = "stealLock"
    /\ routine[g].target \in WorkerSlots
    /\ wsLock[routine[g].target] = 0
    /\ wsLock' = Lock(wsLock, routine[g].target, g)
    /\ routine' = [routine EXCEPT ![g].pc = "stealTake"]
    /\ UNCHANGED <<wsQueue, wgCount, made>>
    /\ UNCHANGED <<varsNext, varsSolved, varsStore, varsCodec, varsPool, varsJs, varsPath, varsDecode, varsMoves, varsQueue, varsProcess, varsCard, varsFill, varsPw, varsMcts>>

\* lines 570-575 and the next round of the loop: the test, the pop and the unlock
StealTake(g) ==
    /\ routine[g].pc = "stealTake"
    /\ \E target \in {routine[g].target} :
          /\ wsLock' = Unlock(wsLock, target)
          /\ IF canSteal(wsQueue[target])
             THEN \E taken \in {heapPop(wsQueue[target])} :
                     /\ wsQueue' = [wsQueue EXCEPT ![target] = taken.heap]
                     /\ routine' = [routine EXCEPT ![g].pc = "addStolen",
                                                   ![g].item = taken.item,
                                                   ![g].stolen = TRUE]
             ELSE /\ UNCHANGED wsQueue
                  /\ routine' = [routine EXCEPT
                                    ![g].pc = "stealLock",
                                    ![g].target = NextTarget(routine[g].id, target),
                                    ![g].found = @ \cup {target}]
    /\ UNCHANGED <<wgCount, made>>
    /\ UNCHANGED <<varsNext, varsSolved, varsStore, varsCodec, varsPool, varsJs, varsPath, varsDecode, varsMoves, varsQueue, varsProcess, varsCard, varsFill, varsPw, varsMcts>>

\* lines 577-580: if stolen { myState.addToQueue(item); break }, then continue
AddStolenItem(g) ==
    /\ routine[g].pc = "addStolen"
    /\ wsLock[routine[g].id] = 0
    /\ wsQueue' = [wsQueue EXCEPT ![routine[g].id] = heapPush(@, routine[g].item)]
    /\ routine' = [routine EXCEPT ![g].pc = "loop", ![g].item = NoWork,
                                  ![g].stolen = FALSE]
    /\ UNCHANGED <<wsLock, wgCount, made>>
    /\ UNCHANGED <<varsNext, varsSolved, varsStore, varsCodec, varsPool, varsJs, varsPath, varsDecode, varsMoves, varsQueue, varsProcess, varsCard, varsFill, varsPw, varsMcts>>

\* lines 583-586 with the deferred wg.Done(): no target was left to try
ExitNoWork(g) ==
    /\ routine[g].pc = "stealLock"
    /\ routine[g].target = StealSlots
    /\ routine' = [routine EXCEPT ![g].pc = "exited"]
    /\ wgCount' = wgCount - 1
    /\ UNCHANGED <<wsQueue, wsLock, made>>
    /\ UNCHANGED <<varsNext, varsSolved, varsStore, varsCodec, varsPool, varsJs, varsPath, varsDecode, varsMoves, varsQueue, varsProcess, varsCard, varsFill, varsPw, varsMcts>>

\* processNextState, lines 319-323: a child whose tryAddState returned true
ChildFound(g) ==
    /\ routine[g].pc = "expand"
    /\ made < MaxItems
    /\ routine' = [routine EXCEPT ![g].pc = "addChild", ![g].item = NewItem(made + 1)]
    /\ made' = made + 1
    /\ UNCHANGED <<wsQueue, wsLock, wgCount>>
    /\ UNCHANGED <<varsNext, varsSolved, varsStore, varsCodec, varsPool, varsJs, varsPath, varsDecode, varsMoves, varsQueue, varsProcess, varsCard, varsFill, varsPw, varsMcts>>

\* line 322: ws.addToQueue(StateItem{nextState, score})
AddChild(g) ==
    /\ routine[g].pc = "addChild"
    /\ wsLock[routine[g].id] = 0
    /\ wsQueue' = [wsQueue EXCEPT ![routine[g].id] = heapPush(@, routine[g].item)]
    /\ routine' = [routine EXCEPT ![g].pc = "expand", ![g].item = NoWork]
    /\ UNCHANGED <<wsLock, wgCount, made>>
    /\ UNCHANGED <<varsNext, varsSolved, varsStore, varsCodec, varsPool, varsJs, varsPath, varsDecode, varsMoves, varsQueue, varsProcess, varsCard, varsFill, varsPw, varsMcts>>

\* lines 601-615 when no spawn is tried: back to the head of the loop
FinishExpand(g) ==
    /\ routine[g].pc = "expand"
    /\ routine' = [routine EXCEPT ![g].pc = "loop", ![g].item = NoWork]
    /\ UNCHANGED <<wsQueue, wsLock, wgCount, made>>
    /\ UNCHANGED <<varsNext, varsSolved, varsStore, varsCodec, varsPool, varsJs, varsPath, varsDecode, varsMoves, varsQueue, varsProcess, varsCard, varsFill, varsPw, varsMcts>>

SpareRoutines ==
    Cardinality({g \in Routines : routine[g].pc = "idle"})
    - Cardinality({g \in Routines :
                      routine[g].pc \in {"spawnLockNext", "spawnTest", "spawnLockOwn",
                                         "spawnMove", "spawnStart"}})

\* lines 612-613 and 330-333: the queue is long, trySpawnNewWorker is called
TrySpawn(g) ==
    /\ routine[g].pc = "expand"
    /\ Len(wsQueue[routine[g].id]) > SpawnOver
    /\ SpareRoutines > 0
    /\ routine' = [routine EXCEPT
                      ![g].pc = IF routine[g].id >= StealSlots - 1 THEN "loop"
                                ELSE "spawnLockNext",
                      ![g].item = NoWork]
    /\ UNCHANGED <<wsQueue, wsLock, wgCount, made>>
    /\ UNCHANGED <<varsNext, varsSolved, varsStore, varsCodec, varsPool, varsJs, varsPath, varsDecode, varsMoves, varsQueue, varsProcess, varsCard, varsFill, varsPw, varsMcts>>

\* lines 334-336: nextWorker := workerStates[id+1]; nextWorker.lock.Lock()
SpawnLockNext(g) ==
    /\ routine[g].pc = "spawnLockNext"
    /\ wsLock[routine[g].id + 1] = 0
    /\ wsLock' = Lock(wsLock, routine[g].id + 1, g)
    /\ routine' = [routine EXCEPT ![g].pc = "spawnTest"]
    /\ UNCHANGED <<wsQueue, wgCount, made>>
    /\ UNCHANGED <<varsNext, varsSolved, varsStore, varsCodec, varsPool, varsJs, varsPath, varsDecode, varsMoves, varsQueue, varsProcess, varsCard, varsFill, varsPw, varsMcts>>

\* lines 338 and 358: if nextWorker.queue.Len() == 0, else return false
SpawnTest(g) ==
    /\ routine[g].pc = "spawnTest"
    /\ IF Len(wsQueue[routine[g].id + 1]) = 0
       THEN /\ routine' = [routine EXCEPT ![g].pc = "spawnLockOwn"]
            /\ UNCHANGED wsLock
       ELSE /\ routine' = [routine EXCEPT ![g].pc = "loop"]
            /\ wsLock' = Unlock(wsLock, routine[g].id + 1)
    /\ UNCHANGED <<wsQueue, wgCount, made>>
    /\ UNCHANGED <<varsNext, varsSolved, varsStore, varsCodec, varsPool, varsJs, varsPath, varsDecode, varsMoves, varsQueue, varsProcess, varsCard, varsFill, varsPw, varsMcts>>

\* line 341: ws.lock.Lock()
SpawnLockOwn(g) ==
    /\ routine[g].pc = "spawnLockOwn"
    /\ wsLock[routine[g].id] = 0
    /\ wsLock' = Lock(wsLock, routine[g].id, g)
    /\ routine' = [routine EXCEPT ![g].pc = "spawnMove"]
    /\ UNCHANGED <<wsQueue, wgCount, made>>
    /\ UNCHANGED <<varsNext, varsSolved, varsStore, varsCodec, varsPool, varsJs, varsPath, varsDecode, varsMoves, varsQueue, varsProcess, varsCard, varsFill, varsPw, varsMcts>>

\* lines 339-346: newQueue filled from the own queue, then ws.lock.Unlock()
SpawnMove(g) ==
    /\ routine[g].pc = "spawnMove"
    /\ \E moved \in {MoveItems(wsQueue[routine[g].id], <<>>, 0)} :
          /\ wsQueue' = [wsQueue EXCEPT ![routine[g].id] = moved.own]
          /\ routine' = [routine EXCEPT ![g].pc = "spawnStart",
                                        ![g].newQueue = moved.newQueue]
    /\ wsLock' = Unlock(wsLock, routine[g].id)
    /\ UNCHANGED <<wgCount, made>>
    /\ UNCHANGED <<varsNext, varsSolved, varsStore, varsCodec, varsPool, varsJs, varsPath, varsDecode, varsMoves, varsQueue, varsProcess, varsCard, varsFill, varsPw, varsMcts>>

\* lines 348-356: the queue handed over, wg.Add(1), go worker(id+1, "", ...),
\* return true with the deferred nextWorker.lock.Unlock()
SpawnStart(g) ==
    /\ routine[g].pc = "spawnStart"
    /\ \E fresh \in {CHOOSE idle \in Routines :
                        /\ routine[idle].pc = "idle"
                        /\ \A other \in Routines :
                              routine[other].pc = "idle" => idle <= other} :
          routine' = [routine EXCEPT
                         ![g].pc = "loop", ![g].newQueue = <<>>,
                         ![fresh] = [NotStarted EXCEPT !.id = routine[g].id + 1,
                                                       !.pc = "loop"]]
    /\ wsQueue' = [wsQueue EXCEPT ![routine[g].id + 1] = routine[g].newQueue]
    /\ wsLock' = Unlock(wsLock, routine[g].id + 1)
    /\ wgCount' = wgCount + 1
    /\ UNCHANGED made
    /\ UNCHANGED <<varsNext, varsSolved, varsStore, varsCodec, varsPool, varsJs, varsPath, varsDecode, varsMoves, varsQueue, varsProcess, varsCard, varsFill, varsPw, varsMcts>>

Step(g) ==
    \/ GetNextState(g) \/ StealLock(g) \/ StealTake(g) \/ AddStolenItem(g)
    \/ ExitNoWork(g) \/ ChildFound(g) \/ AddChild(g) \/ FinishExpand(g)
    \/ TrySpawn(g) \/ SpawnLockNext(g) \/ SpawnTest(g) \/ SpawnLockOwn(g)
    \/ SpawnMove(g) \/ SpawnStart(g)

NextSteal == \E g \in Routines : Step(g)

SpecSteal == InitSteal /\ [][NextSteal]_vars

\* every goroutine that can take a step is scheduled
SpecStealFair == SpecSteal /\ \A g \in Routines : WF_vars(Step(g))

ItemsOf(heap) == {heap[at].state : at \in 1..Len(heap)}
QueuedCount ==
    Cardinality({place \in WorkerSlots \X (1..(MaxItems + 1)) :
                    place[2] <= Len(wsQueue[place[1]])})
Thieves == {thief \in Routines : routine[thief].stolen}
Held ==
    UNION {ItemsOf(wsQueue[slot]) : slot \in WorkerSlots}
    \cup {routine[thief].item.state : thief \in Thieves}
HeldCount == QueuedCount + Cardinality(Thieves)

\* C21: a steal pops exactly one item from a sibling queue that held more than
\* one item, leaves that queue non-empty and pushes that same item on the
\* stealer's queue; the items queued or in a stealer's hands are neither lost
\* nor duplicated by a steal; a worker exits for lack of work only after it
\* found its own queue empty and every sibling queue with at most one item.
C21_StealMovesOneItem ==
    /\ [](HeldCount = Cardinality(Held))
    /\ [][\A thief \in Routines :
            (routine'[thief].stolen /\ ~routine[thief].stolen) =>
               \E victim \in {routine[thief].target} :
                  /\ victim # routine[thief].id
                  /\ Len(wsQueue[victim]) > 1
                  /\ Len(wsQueue'[victim]) = Len(wsQueue[victim]) - 1
                  /\ Len(wsQueue'[victim]) >= 1
                  /\ routine'[thief].item.state \in ItemsOf(wsQueue[victim])
                  /\ ItemsOf(wsQueue'[victim])
                        = ItemsOf(wsQueue[victim]) \ {routine'[thief].item.state}
                  /\ \A slot \in WorkerSlots \ {victim} : wsQueue'[slot] = wsQueue[slot]
                  /\ Held' = Held /\ HeldCount' = HeldCount]_vars
    /\ [][\A thief \in Routines :
            (routine[thief].stolen /\ ~routine'[thief].stolen) =>
               \E home \in {routine[thief].id} :
                  /\ ItemsOf(wsQueue'[home])
                        = ItemsOf(wsQueue[home]) \cup {routine[thief].item.state}
                  /\ Len(wsQueue'[home]) = Len(wsQueue[home]) + 1
                  /\ \A slot \in WorkerSlots \ {home} : wsQueue'[slot] = wsQueue[slot]
                  /\ Held' = Held /\ HeldCount' = HeldCount]_vars
    /\ [][\A leaver \in Routines :
            (routine'[leaver].pc = "exited" /\ routine[leaver].pc # "exited") =>
               routine[leaver].found = WorkerSlots]_vars

C21_Witness ==
    /\ \E thief \in Routines :
          /\ routine[thief].pc = "addStolen" /\ routine[thief].stolen
          /\ Len(wsQueue[routine[thief].target]) >= 1
    /\ \E leaver \in Routines : routine[leaver].pc = "exited"

LocksHeldBy(g) == {slot \in WorkerSlots : wsLock[slot] = g}
WantedLock(g) ==
    IF routine[g].pc \in {"loop", "addStolen", "addChild", "spawnLockOwn"}
    THEN routine[g].id
    ELSE IF routine[g].pc = "stealLock" /\ routine[g].target \in WorkerSlots
    THEN routine[g].target
    ELSE IF routine[g].pc = "spawnLockNext" THEN routine[g].id + 1
    ELSE -1
Blocked(g) ==
    \E wanted \in {WantedLock(g)} : wanted # -1 /\ wsLock[wanted] # 0

\* C22: a worker that steals holds the lock of the target queue only, and no
\* lock while it waits for a target or queues what it stole; whenever workers
\* wait for a queue lock that another goroutine holds there is a later moment
\* at which none of them waits, so that no worker waits for ever.
C22_NoWorkerBlockedForever ==
    /\ [](\A thief \in Routines :
            /\ routine[thief].pc = "stealTake" =>
                  /\ LocksHeldBy(thief) = {routine[thief].target}
                  /\ routine[thief].target # routine[thief].id
            /\ routine[thief].pc \in {"stealLock", "addStolen"} =>
                  LocksHeldBy(thief) = {})
    /\ []<>(\A waiter \in Routines : ~Blocked(waiter))

C22_Witness ==
    \E thief \in Routines, spawner \in Routines :
       /\ routine[thief].pc = "stealTake"
       /\ routine[spawner].pc = "spawnLockOwn"
       /\ wsLock[routine[spawner].id] = thief
       /\ wsLock[routine[spawner].id + 1] = spawner
       /\ Blocked(spawner)

RunningAt(slot) ==
    {g \in Routines : routine[g].id = slot /\ routine[g].pc \notin {"idle", "exited"}}

\* C23: at most one worker runs on a slot, so the running workers never
\* outnumber the slots.
C23_OneWorkerPerSlot ==
    /\ \A slot \in WorkerSlots : Cardinality(RunningAt(slot)) <= 1
    /\ Cardinality(UNION {RunningAt(slot) : slot \in WorkerSlots}) <= StealSlots

\* C24: a split moves at most the batch size of items, every item it takes
\* from the own queue goes to the queue of the new worker, which was empty,
\* and nothing else is moved.
C24_SplitMovesBatch ==
    /\ [][\A spawner \in Routines :
            (routine[spawner].pc = "spawnMove" /\ routine'[spawner].pc = "spawnStart") =>
               \E home \in {routine[spawner].id} :
                  /\ Len(routine'[spawner].newQueue) <= SplitBatch
                  /\ Len(wsQueue[home])
                        = Len(wsQueue'[home]) + Len(routine'[spawner].newQueue)
                  /\ ItemsOf(wsQueue[home])
                        = ItemsOf(wsQueue'[home]) \cup ItemsOf(routine'[spawner].newQueue)
                  /\ wsQueue[home + 1] = <<>>
                  /\ \A slot \in WorkerSlots \ {home} : wsQueue'[slot] = wsQueue[slot]]_vars
    /\ [][\A spawner \in Routines :
            (routine[spawner].pc = "spawnStart" /\ routine'[spawner].pc = "loop") =>
               \E home \in {routine[spawner].id} :
                  /\ wsQueue[home + 1] = <<>>
                  /\ Len(wsQueue'[home + 1]) = Len(routine[spawner].newQueue)
                  /\ ItemsOf(wsQueue'[home + 1]) = ItemsOf(routine[spawner].newQueue)
                  /\ \A slot \in WorkerSlots \ {home + 1} :
                        wsQueue'[slot] = wsQueue[slot]]_vars

C24_Witness ==
    /\ Len(wsQueue[1]) = SplitBatch /\ Len(wsQueue[0]) >= 1 /\ wsLock[1] = 0
    /\ \E fresh \in Routines : routine[fresh].id = 1 /\ routine[fresh].pc = "loop"
    /\ \A g \in Routines : routine[g].pc \in {"idle", "loop"}

-----------------------------------------------------------------------------
\* Part 9. A worker expanding states (solver.go 254-326, 540-545, 561-599):
\* each state of nextStates is offered to tryAddState and queued when the
\* call returns true. The store starts with the record of the initial state
\* and with records of successors of it, so that calls of tryAddState return.

ProcDeals == 3      \* deals the worker of SpecProcess starts from
SeedDepth == 60     \* depth of the records that an offered path improves

\* if tryAddState(nextState, state, move, depth+1) { ... ws.addToQueue(...) }
queuesAlways(returned) == TRUE
queuesChild(returned) == returned = "true"

SeedRecord(parent, state, depth) ==
    [parentState |-> parent, move |-> MoveText(parent, state), depth |-> depth, ptr |-> 0]

\* the record of the initial state and a record for each successor but `absent`,
\* of depth 0 for `shallow` and of depth SeedDepth for the others
SeedStore(first, shallow, absent) ==
    [key \in {HashOfState(first)}
              \cup {HashOfState(successor) :
                      successor \in Range(NextStates(first)) \ absent} |->
        IF key = HashOfState(first)
        THEN [parentState |-> first, move |-> "Initial state", depth |-> 0, ptr |-> 0]
        ELSE SeedRecord(first, key, IF key \in shallow THEN 0 ELSE SeedDepth)]

InitProcess ==
    /\ \E deal \in 0..(ProcDeals - 1) :
        \E first \in {ToCompact(Deal(deal))} :
          /\ procQueue = <<[state |-> first, priority |-> getStateScore(first)]>>
          /\ \E shallow \in {{}} \cup {{successor} : successor \in Range(NextStates(first))},
                absent \in {{}} \cup {{successor} : successor \in Range(NextStates(first))} :
                stateHistory = SeedStore(first, shallow, absent)
    /\ procCurrent = NoItem /\ procNext = <<>> /\ procPc = "loop"
    /\ tpc = <<"idle">>
    /\ targs = <<[state |-> <<>>, parent |-> <<>>, move |-> "", depth |-> 0]>>
    /\ texisting = <<Nil>>
    /\ tret = <<"none">>
    /\ IdleNext /\ IdleSolved /\ IdleCodec /\ IdlePool /\ IdleJs /\ IdlePath /\ IdleCard /\ IdleFill /\ IdlePw /\ IdleMcts
    /\ IdleDecode /\ IdleMoves /\ IdleQueue /\ IdleSteal

\* lines 561-599: item, ok := myState.getNextState(); nothing to steal with one
\* worker; isSolution(current); nextStates := state.NextStates()
PopState ==
    /\ procPc = "loop"
    /\ IF Len(procQueue) = 0
       THEN /\ procPc' = "exited"
            /\ UNCHANGED <<procQueue, procCurrent, procNext>>
       ELSE \E taken \in {heapPop(procQueue)} :
               /\ procQueue' = taken.heap
               /\ procCurrent' = taken.item
               /\ IF isSolution(taken.item.state)
                  THEN procPc' = "solution" /\ UNCHANGED procNext
                  ELSE procPc' = "children" /\ procNext' = NextStates(taken.item.state)
    /\ UNCHANGED <<varsStore, varsCard, varsFill, varsPw, varsMcts>>
    /\ UNCHANGED <<varsNext, varsSolved, varsCodec, varsPool, varsJs, varsPath, varsDecode, varsMoves, varsQueue, varsSteal, varsCard, varsFill, varsPw, varsMcts>>

\* lines 258-321: the next state of nextStates is offered with depth+1, depth
\* being the priority of the popped item (line 591)
OfferChild ==
    /\ procPc = "children"
    /\ IF Len(procNext) = 0
       THEN /\ procPc' = "loop"
            /\ UNCHANGED <<tpc, targs>>
       ELSE /\ procPc' = "tryAdd"
            /\ targs' = <<[state |-> Head(procNext), parent |-> procCurrent.state,
                           move |-> MoveText(procCurrent.state, Head(procNext)),
                           depth |-> procCurrent.priority + 1]>>
            /\ tpc' = <<"load">>
    /\ UNCHANGED <<stateHistory, texisting, tret, procQueue, procCurrent, procNext>>
    /\ UNCHANGED <<varsNext, varsSolved, varsCodec, varsPool, varsJs, varsPath, varsDecode, varsMoves, varsQueue, varsSteal, varsCard, varsFill, varsPw, varsMcts>>

\* the worker inside tryAddState
ProcessTryAddLoad ==
    /\ procPc = "tryAdd"
    /\ TryAddLoad(1)
    /\ UNCHANGED varsProcess
    /\ UNCHANGED <<varsNext, varsSolved, varsCodec, varsPool, varsJs, varsPath, varsDecode, varsMoves, varsQueue, varsSteal, varsCard, varsFill, varsPw, varsMcts>>

ProcessTryAddCAS ==
    /\ procPc = "tryAdd"
    /\ TryAddCAS(1)
    /\ UNCHANGED varsProcess
    /\ UNCHANGED <<varsNext, varsSolved, varsCodec, varsPool, varsJs, varsPath, varsDecode, varsMoves, varsQueue, varsSteal, varsCard, varsFill, varsPw, varsMcts>>

\* lines 321-324: the call has returned; the child is queued with its score
\* when it returned true
AfterTryAdd ==
    /\ procPc = "tryAdd" /\ tpc[1] = "ret"
    /\ procQueue' = IF queuesChild(tret[1])
                    THEN heapPush(procQueue, [state |-> targs[1].state,
                                              priority |-> getStateScore(targs[1].state)])
                    ELSE procQueue
    /\ procNext' = Tail(procNext)
    /\ procPc' = "children"
    /\ tpc' = <<"idle">> /\ tret' = <<"none">>
    /\ UNCHANGED <<stateHistory, targs, texisting, procCurrent>>
    /\ UNCHANGED <<varsNext, varsSolved, varsCodec, varsPool, varsJs, varsPath, varsDecode, varsMoves, varsQueue, varsSteal, varsCard, varsFill, varsPw, varsMcts>>

NextProcess ==
    \/ PopState \/ OfferChild \/ ProcessTryAddLoad \/ ProcessTryAddCAS \/ AfterTryAdd

SpecProcess == InitProcess /\ [][NextProcess]_vars

\* C25: a child is queued exactly when its tryAddState returned true, and the
\* state a worker has popped for expansion has a record in stateHistory.
C25_QueuedIffAdded ==
    /\ [][\A offered \in {targs[1].state} :
            (procPc = "tryAdd" /\ procPc' = "children") =>
               /\ tpc[1] = "ret"
               /\ tret[1] = "true" =>
                     /\ Len(procQueue') = Len(procQueue) + 1
                     /\ \E at \in 1..Len(procQueue') : procQueue'[at].state = offered
                     /\ HashOfState(offered) \in DOMAIN stateHistory
               /\ tret[1] # "true" => procQueue' = procQueue]_vars
    /\ [][Len(procQueue') > Len(procQueue) =>
            procPc = "tryAdd" /\ tpc[1] = "ret" /\ tret[1] = "true"]_vars
    /\ [](procPc \in {"children", "tryAdd", "solution"} =>
            HashOfState(procCurrent.state) \in DOMAIN stateHistory)
    /\ [](\A at \in 1..Len(procQueue) :
            HashOfState(procQueue[at].state) \in DOMAIN stateHistory)

C25_Witness ==
    /\ procPc = "tryAdd"
    /\ procCurrent.state \in DOMAIN stateHistory
    /\ stateHistory[procCurrent.state].ptr = 1
    /\ stateHistory[procCurrent.state].parentState # procCurrent.state

-----------------------------------------------------------------------------
\* Part 10. The card code of solver.js on the cards of cardDeck
\* (solver.js 2-39, utils.js 2-7).

\* `${n}`: the decimal text of a number
DecimalText(n) ==
    <<"1", "2", "3", "4", "5", "6", "7", "8", "9", "10", "11", "12", "13", "14", "15",
      "16">>[n]

\* solverToCard(char): the rank is "A" for 1 and the number itself otherwise
solverToCard(code) ==
    LET rank(base) == IF code - base = 1 THEN "A" ELSE DecimalText(code - base)
    IN  IF code < Char0 + SuitSlots THEN <<rank(Char0 - 1), "H">>
        ELSE IF code < Char0 + (2 * SuitSlots) THEN <<rank(Char0 + SuitSlots - 1), "D">>
        ELSE IF code < Char0 + (3 * SuitSlots)
        THEN <<rank(Char0 + (2 * SuitSlots) - 1), "C">>
        ELSE <<rank(Char0 + (3 * SuitSlots) - 1), "S">>

NotCoded == [char |-> 0, card |-> <<"", "">>, done |-> FALSE]

InitCard ==
    /\ jcard \in Range(cardDeck)
    /\ jcoded = NotCoded
    /\ IdleNext /\ IdleSolved /\ IdleStore /\ IdleCodec /\ IdlePool /\ IdleJs /\ IdlePath /\ IdleDecode /\ IdleMoves /\ IdleQueue /\ IdleSteal /\ IdleProcess /\ IdleFill /\ IdlePw /\ IdleMcts

\* solverToCard(cardToSolver(card))
Recode ==
    /\ ~jcoded.done
    /\ jcoded' = [char |-> jsCardToSolver(jcard),
                  card |-> solverToCard(jsCardToSolver(jcard)), done |-> TRUE]
    /\ UNCHANGED jcard
    /\ UNCHANGED <<varsNext, varsSolved, varsStore, varsCodec, varsPool, varsJs, varsPath, varsDecode, varsMoves, varsQueue, varsSteal, varsProcess, varsFill, varsPw, varsMcts>>

NextCard == Recode

SpecCard == InitCard /\ [][NextCard]_vars

\* C40: for each card of cardDeck solverToCard(cardToSolver(card)) is the card,
\* and getSolverValue and getSolverSuit of its code are the index of its rank
\* in A, 2..9, T, J, Q, K and its suit.
C40_CardCodeRoundTrip ==
    jcoded.done =>
       /\ jcoded.card = jcard
       /\ jsGetSolverValue(jcoded.char) = rankIndexOf(jcard[1])
       /\ <<"H", "D", "C", "S">>[jsGetSolverSuit(jcoded.char) + 1] = jcard[2]
-----------------------------------------------------------------------------
\* Part 11. The slots of the rows (streets_and_alleys.go 40-44, 74-95,
\* 446-453, 480-567): Rows is [8][19]Card, Card{} marks a free slot.

MaxFillMoves == 13      \* moves applied to a deal in SpecFill

\* an order of the deck shuffleDeck can leave: dealt by Reset it puts a King on
\* top of rows 0 and 7, the Queen to the 7 of hearts on row 1, the 6 to the 3
\* of hearts on row 4 and a 2 on the Ace of hearts on row 5
FillOrder ==
    <<<<1, "D">>, <<3, "D">>, <<4, "D">>, <<5, "D">>, <<6, "D">>, <<7, "D">>, <<13, "S">>,
      <<13, "H">>, <<7, "H">>, <<8, "H">>, <<9, "H">>, <<10, "H">>, <<11, "H">>, <<12, "H">>,
      <<8, "D">>, <<9, "D">>, <<10, "D">>, <<11, "D">>, <<12, "D">>, <<1, "C">>, <<2, "H">>,
      <<3, "C">>, <<4, "C">>, <<5, "C">>, <<6, "C">>, <<7, "C">>, <<8, "C">>, <<2, "C">>,
      <<9, "C">>, <<13, "C">>, <<3, "H">>, <<4, "H">>, <<5, "H">>, <<6, "H">>,
      <<10, "C">>, <<11, "C">>, <<12, "C">>, <<1, "S">>, <<1, "H">>, <<2, "D">>,
      <<3, "S">>, <<4, "S">>, <<5, "S">>, <<6, "S">>, <<7, "S">>, <<2, "S">>,
      <<8, "S">>, <<9, "S">>, <<10, "S">>, <<11, "S">>, <<12, "S">>, <<13, "D">>>>

FillDeck ==
    [i \in 1..52 |-> [Value |-> FillOrder[i][1], Suit |-> FillOrder[i][2]]]

\* Reset: deck[cardIndex] into the slots of each row from column 0
DealSlots(shuffled) ==
    [r \in 1..NumRows |->
        [col \in 1..RowCap |->
            IF col <= ResetRowLen(r - 1) THEN shuffled[ResetRowStart(r - 1) + col]
            ELSE NoCard]]

\* getLastCard on the slots: the scan from column 18 down to the first card
lastCardCol(slotRow) ==
    IF \A col \in 1..RowCap : slotRow[col] = NoCard THEN -1
    ELSE (CHOOSE col \in 1..RowCap :
            /\ slotRow[col] # NoCard
            /\ \A above \in (col + 1)..RowCap : slotRow[above] = NoCard) - 1

\* the slots of each row up to its last card, what getLastCard and
\* getLowestRemainingCards read
UpToLastCard(slotRows) ==
    [r \in 1..NumRows |-> SubSeq(slotRows[r], 1, lastCardCol(slotRows[r]) + 1)]

\* the last free column of a row, 0 for none
lastFreeCol(slotRow) ==
    IF \A col \in 1..RowCap : slotRow[col] # NoCard THEN 0
    ELSE CHOOSE col \in 1..RowCap :
            slotRow[col] = NoCard /\ \A above \in (col + 1)..RowCap : slotRow[above] # NoCard

\* the column applyMove puts the card in: the first free one, 0 for none
firstFreeCol(slotRow) ==
    IF \A col \in 1..RowCap : slotRow[col] # NoCard THEN 0
    ELSE CHOOSE col \in 1..RowCap :
            slotRow[col] = NoCard /\ \A below \in 1..(col - 1) : slotRow[below] # NoCard

\* applyMove on the slots of a clone of the game
applyMoveSlots(slotRows, move) ==
    LET fromCol == lastCardCol(slotRows[move.From + 1])
        card == slotRows[move.From + 1][fromCol + 1]
        removed == [slotRows EXCEPT ![move.From + 1][fromCol + 1] = NoCard]
    IN  IF fromCol = -1 THEN [g |-> slotRows, err |-> "source row is empty"]
        ELSE IF move.To = Foundation THEN [g |-> removed, err |-> ""]
        ELSE IF firstFreeCol(removed[move.To + 1]) # 0
             THEN [g |-> [removed EXCEPT
                            ![move.To + 1][firstFreeCol(removed[move.To + 1])] = card],
                   err |-> ""]
        ELSE [g |-> removed, err |-> "destination row is full"]

InitFill ==
    /\ board = DealSlots(FillDeck)
    /\ berr = ""
    /\ bself = DealSlots(FillDeck)
    /\ bmoves = 0
    /\ IdleNext /\ IdleSolved /\ IdleStore /\ IdleCodec /\ IdlePool /\ IdleJs /\ IdlePath /\ IdleDecode /\ IdleMoves /\ IdleQueue /\ IdleSteal /\ IdleProcess /\ IdleCard /\ IdlePw /\ IdleMcts

\* newState, err := g.applyMove(move) for a move of g.generateLegalMoves(); the
\* caller goes on with newState whatever err is
FillMove ==
    /\ bmoves < MaxFillMoves
    /\ \E held \in {UpToLastCard(board)} :
         \E move \in Range(generateLegalMoves(held)) :
            \E applied \in {applyMoveSlots(board, move)} :
               /\ board' = applied.g
               /\ berr' = applied.err
    /\ bself' = board
    /\ bmoves' = bmoves + 1
    /\ UNCHANGED <<varsNext, varsSolved, varsStore, varsCodec, varsPool, varsJs, varsPath, varsDecode, varsMoves, varsQueue, varsSteal, varsProcess, varsCard, varsPw, varsMcts>>

NextFill == FillMove

SpecFill == InitFill /\ [][NextFill]_vars

cardsHeld(slotRow) == Cardinality({col \in 1..RowCap : slotRow[col] # NoCard})

\* the cards of a row fill its columns from 0 without a gap
Packed(slotRow) ==
    \A col \in 1..RowCap : slotRow[col] # NoCard <=> col <= cardsHeld(slotRow)

\* C39: in every game reached from a full deal by moves of generateLegalMoves
\* the cards of each row fill a prefix of its 19 slots, applyMove has returned
\* neither of its errors, and the game applyMove was called on is left as it
\* was.
C39_RowsFitTheSlots ==
    /\ \A r \in 1..NumRows : Packed(board[r])
    /\ berr = ""
    /\ bmoves > 0 =>
          \E held \in {UpToLastCard(bself)} :
             \E move \in Range(generateLegalMoves(held)) :
                applyMoveSlots(bself, move).g = board

\* a row holds 19 cards: the seven dealt under a King and the Queen to the Ace
C39_Witness ==
    /\ bmoves > 0
    /\ \E r \in 1..NumRows : cardsHeld(board[r]) = RowCap
-----------------------------------------------------------------------------
\* Part 12. isProbablyWinnable (part_002 211-440): the search of the page over
\* the dealt game, with its own StateQueue.

PwDeals == 6            \* the shuffles JsShuffled(0) .. JsShuffled(PwDeals-1) drawn
PwIterations == 30      \* iterations of the while loop explored

\* an order shuffle can leave the deck in: the Ace of hearts is dealt first
PwDeck ==
    <<<<"A", "H">>, <<"4", "C">>, <<"T", "C">>, <<"Q", "C">>, <<"2", "S">>, <<"K", "C">>, <<"J", "S">>,
      <<"Q", "H">>, <<"A", "S">>, <<"3", "C">>, <<"2", "H">>, <<"7", "D">>, <<"6", "C">>,
      <<"3", "S">>, <<"7", "S">>, <<"A", "C">>, <<"J", "C">>, <<"6", "H">>, <<"7", "H">>, <<"5", "C">>,
      <<"T", "S">>, <<"Q", "D">>, <<"8", "S">>, <<"9", "D">>, <<"T", "H">>, <<"2", "C">>,
      <<"A", "D">>, <<"J", "H">>, <<"8", "H">>, <<"6", "S">>, <<"3", "H">>, <<"T", "D">>, <<"K", "D">>,
      <<"5", "S">>, <<"8", "C">>, <<"8", "D">>, <<"6", "D">>, <<"Q", "S">>, <<"3", "D">>,
      <<"9", "S">>, <<"9", "C">>, <<"9", "H">>, <<"K", "S">>, <<"4", "S">>, <<"5", "H">>, <<"2", "D">>,
      <<"7", "C">>, <<"4", "D">>, <<"4", "H">>, <<"5", "D">>, <<"J", "D">>, <<"K", "H">>>>

\* a < b as strings: the order Array.prototype.sort() uses by default
LexLess(a, b) ==
    \E i \in 1..Len(b) :
        /\ i <= Len(a) + 1
        /\ \A j \in 1..(i - 1) : a[j] = b[j]
        /\ (i = Len(a) + 1 \/ a[i] < b[i])

\* list.sort()
SortStrings(list) ==
    LET place(i) == 1 + Cardinality({j \in 1..Len(list) : LexLess(list[j], list[i])})
                      + Cardinality({j \in 1..(i - 1) : list[j] = list[i]})
    IN  [k \in 1..Len(list) |-> list[CHOOSE i \in 1..Len(list) : place(i) = k]]

\* dealStreetsAlleys of the page: rows of 7 and 6 cards in turn
pwDealRows(shuffled) ==
    [r \in 1..8 |->
        LET start == (((r - 1) \div 2) * 13) + (IF r % 2 = 0 THEN 7 ELSE 0)
        IN  [j \in 1..(IF r % 2 = 0 THEN 6 ELSE 7) |-> shuffled[start + j]]]

\* stateToSolver(streets) after reset(): foundations is [], so no "_" follows
stateToSolver(rows) ==
    Join(SortStrings([r \in 1..Len(rows) |->
                        [j \in 1..Len(rows[r]) |-> jsCardToSolver(rows[r][j])]]), Pipe)

\* rows.findIndex((row) => row.length === 0), 1-based, 0 for none
pwFirstEmptyRow(rows) ==
    IF \E r \in 1..Len(rows) : Len(rows[r]) = 0
    THEN CHOOSE r \in 1..Len(rows) :
            Len(rows[r]) = 0 /\ \A q \in 1..(r - 1) : Len(rows[q]) # 0
    ELSE 0

\* nextSolverStates of the page: for each source row the moves to rows, then
\* to the foundations, then the Ace that starts a foundation
pwNextSolverStates(solverStr) ==
    LET segments == Split(solverStr, Underscore)
        foundationsArr == Tail(segments)
        rows == Split(segments[1], Pipe)
        n == Len(rows)
        m == Len(foundationsArr)
        perSource == n + m + 1
        firstEmptyRowIndex == pwFirstEmptyRow(rows)
        cand == [idx \in 1..(n * perSource) |->
                    <<((idx - 1) \div perSource) + 1, ((idx - 1) % perSource) + 1>>]
        suffix(list) == IF Len(list) # 0 THEN <<Underscore>> \o Join(list, Underscore)
                        ELSE <<>>
        legal(p) ==
            /\ Len(rows[p[1]]) # 0
            /\ IF p[2] <= n
               THEN /\ p[1] # p[2]
                    /\ (Len(rows[p[2]]) = 0 => p[2] <= firstEmptyRowIndex)
                    /\ jsCanMoveSolver(Last(rows[p[1]]), TopChar(rows[p[2]]))
               ELSE IF p[2] <= n + m
               THEN jsCanMoveToFoundationSolver(Last(rows[p[1]]),
                                                TopChar(foundationsArr[p[2] - n]))
               ELSE jsGetSolverValue(Last(rows[p[1]])) = 0
        result(p) ==
            LET cardChar == Last(rows[p[1]])
                removed == [rows EXCEPT ![p[1]] = Front(rows[p[1]])]
            IN  IF p[2] <= n
                THEN Join(SortStrings([removed EXCEPT ![p[2]] = Append(rows[p[2]], cardChar)]),
                          Pipe) \o suffix(foundationsArr)
                ELSE IF p[2] <= n + m
                THEN Join(SortStrings(removed), Pipe) \o <<Underscore>>
                     \o Join([foundationsArr EXCEPT ![p[2] - n] = <<cardChar>>], Underscore)
                ELSE Join(SortStrings(removed), Pipe) \o <<Underscore>>
                     \o Join(Append(foundationsArr, <<cardChar>>), Underscore)
        moves == SelectSeq(cand, legal)
    IN  [i \in 1..Len(moves) |-> result(moves[i])]

\* StateQueue.getStateScore: foundationsStr is the second segment of the state
pwGetStateScore(state) ==
    LET rows == jsRows(state)
        foundations == jsFoundations(state)
        foundationScore == Cardinality({f \in 1..Len(foundations) : Len(foundations[f]) # 0}) * 4
        emptyScore == Cardinality({r \in 1..Len(rows) : Len(rows[r]) = 0}) * 4
    IN  foundationScore + emptyScore + getAccessibilityScore(rows, foundations) + 20

\* this.queues[score] is an array
HasBucket(score) == score \in 0..(NumBuckets - 1)

InitPw ==
    /\ \E shuffled \in {PwDeck} \cup {JsShuffled(k) : k \in 0..(PwDeals - 1)} :
         pwCur = stateToSolver(pwDealRows(shuffled))
    /\ pwParent = <<>> /\ pwQueue = <<>> /\ pwNext = <<>>
    /\ pwpc = "start" /\ pwIter = 0 /\ pwScore = 0
    /\ IdleNext /\ IdleSolved /\ IdleStore /\ IdleCodec /\ IdlePool /\ IdleJs /\ IdlePath /\ IdleDecode /\ IdleMoves /\ IdleQueue /\ IdleSteal /\ IdleProcess /\ IdleCard /\ IdleFill /\ IdleMcts

\* gameQueue.push(stateToSolver(streets))
PwPushInitial ==
    /\ pwpc = "start"
    /\ pwScore' = pwGetStateScore(pwCur)
    /\ IF HasBucket(pwGetStateScore(pwCur))
       THEN /\ pwQueue' = <<[bucket |-> pwGetStateScore(pwCur), state |-> pwCur]>>
            /\ pwpc' = "loop"
       ELSE /\ pwpc' = "TypeError"
            /\ UNCHANGED pwQueue
    /\ UNCHANGED <<pwParent, pwCur, pwNext, pwIter>>
    /\ UNCHANGED <<varsNext, varsSolved, varsStore, varsCodec, varsPool, varsJs, varsPath, varsDecode, varsMoves, varsQueue, varsSteal, varsProcess, varsCard, varsFill, varsMcts>>

\* an iteration of the while loop up to the call of nextSolverStates
PwPop ==
    /\ pwpc = "loop" /\ Len(pwQueue) > 0 /\ pwIter < PwIterations
    /\ pwIter' = pwIter + 1
    /\ \E popped \in {pwQueue[PopIndex(pwQueue)].state} :
         /\ pwCur' = popped
         /\ pwQueue' = RemoveAt(pwQueue, PopIndex(pwQueue))
         /\ IF isComplete(popped)
            THEN pwpc' = "probably winnable" /\ pwNext' = <<>>
            ELSE \E found \in {pwNextSolverStates(popped)} :
                    /\ pwNext' = found
                    /\ pwpc' = IF Len(found) = 0 THEN "loop" ELSE "forEach"
    /\ UNCHANGED <<pwParent, pwScore>>
    /\ UNCHANGED <<varsNext, varsSolved, varsStore, varsCodec, varsPool, varsJs, varsPath, varsDecode, varsMoves, varsQueue, varsSteal, varsProcess, varsCard, varsFill, varsMcts>>

\* the callback of nextStates.forEach for one state
PwVisit ==
    /\ pwpc = "forEach"
    /\ pwNext' = Tail(pwNext)
    /\ \E nextStr \in {Head(pwNext)} :
         IF nextStr \in DOMAIN pwParent
         THEN /\ pwpc' = IF Len(pwNext) = 1 THEN "loop" ELSE "forEach"
              /\ UNCHANGED <<pwParent, pwQueue, pwScore>>
         ELSE \E score \in {pwGetStateScore(nextStr)} :
                /\ pwParent' = [key \in DOMAIN pwParent \cup {nextStr} |->
                                  IF key \in DOMAIN pwParent THEN pwParent[key] ELSE pwCur]
                /\ pwScore' = score
                /\ IF HasBucket(score)
                   THEN /\ pwQueue' = Append(pwQueue, [bucket |-> score, state |-> nextStr])
                        /\ pwpc' = IF Len(pwNext) = 1 THEN "loop" ELSE "forEach"
                   ELSE /\ pwpc' = "TypeError"
                        /\ UNCHANGED pwQueue
    /\ UNCHANGED <<pwCur, pwIter>>
    /\ UNCHANGED <<varsNext, varsSolved, varsStore, varsCodec, varsPool, varsJs, varsPath, varsDecode, varsMoves, varsQueue, varsSteal, varsProcess, varsCard, varsFill, varsMcts>>

\* the queue is empty: "not winnable"
PwEnd ==
    /\ pwpc = "loop" /\ Len(pwQueue) = 0
    /\ pwpc' = "not winnable"
    /\ UNCHANGED <<pwParent, pwQueue, pwCur, pwNext, pwIter, pwScore>>
    /\ UNCHANGED <<varsNext, varsSolved, varsStore, varsCodec, varsPool, varsJs, varsPath, varsDecode, varsMoves, varsQueue, varsSteal, varsProcess, varsCard, varsFill, varsMcts>>

NextPw == PwPushInitial \/ PwPop \/ PwVisit \/ PwEnd

SpecPw == InitPw /\ [][NextPw]_vars

\* C31: every state isProbablyWinnable pushes has a score in 0..99, so that
\* push finds one of the 100 buckets and never fails.
C31_ScoreWithinBuckets ==
    /\ HasBucket(pwScore)
    /\ pwpc # "TypeError"
-----------------------------------------------------------------------------
\* Part 13. The state the worker takes for a solution (part_000 63-88).

\* every row is empty and the 52 cards lie on the foundations
FullySolved(detected) ==
    \E leftRows \in {jsRows(detected)}, piles \in {jsFoundations(detected)} :
        /\ \A left \in 1..Len(leftRows) : Len(leftRows[left]) = 0
        /\ SumLen2(piles) = 52

\* the state the for loop of processQueue finds complete in the iteration
\* about to run is fully solved
DetectedSolved ==
    \E popAt \in {PopIndex(gameQueue)} :
    \E poppedState \in {gameQueue[popAt].state} :
    \E offered \in {nextSolverStates(poppedState)} :
    \E firstHit \in {FirstComplete(offered)} :
        FullySolved(offered[firstHit])

\* the iteration enters the branch `if (isComplete)`
TakenForSolution ==
    /\ jspc = "processing"
    /\ \/ jspc' = "unshifting"
       \/ Len(posted') > Len(posted) /\ Last(posted').type = "solution"

IsParentChain(path) ==
    /\ Len(path) > 0
    /\ \A i \in 1..Len(path) : path[i] \in DOMAIN pathParent
    /\ pathParent[path[1]] = JsNull
    /\ \A i \in 2..Len(path) : pathParent[path[i]] = path[i - 1]

\* C33: once the worker has found a solving state the reconstruction of the
\* path ends, and the path posted is a chain of pathParent from an initial
\* move to the solving state without undefined entries.
C33_ReconstructionEnds ==
    /\ jspc # "unshifting"
    /\ \A i \in 1..Len(posted) :
          posted[i].type = "solution" => IsParentChain(posted[i].path)

(***************************************************************************)
(* Part 14: the MCTS driver (src/unnamed/part_003).  main parses a layout, *)
(* and for every move builds a fresh tree on currentState, runs runMCTS    *)
(* iterationsPerMove times, appends getBestMove's move to the list it logs *)
(* and applies it.  Hash has a pointer receiver and normalizes the rows of *)
(* the state it is called on, so every state the driver hashes is left     *)
(* normalized: currentState of main at the creation of the root, and each  *)
(* state of the descent and of the rollout.  The state of a tree node is   *)
(* the one runMCTS rebuilds by applying the moves on the path from the     *)
(* root.  Rewards are kept as their numerators over 52.  selectChild       *)
(* returns an unvisited child when there is one, as the code does; among   *)
(* visited children the code takes the highest UCT score, a value of       *)
(* floating-point logarithms and roots, and the model lets any child be    *)
(* taken, which includes the one the code takes.                           *)
(* The three limits of the driver are scaled down: 400 iterations per move,*)
(* 250 moves per game and 150 moves per rollout.                           *)
(***************************************************************************)
iterationsPerMove == 4
MoveLimit == 2
maxRolloutLength == 2

PlayingCard(value, suit) == [Value |-> value, Suit |-> suit]
\* the rows FromString fills from the lines of a game, the other rows empty
ParsedRows(lines) == [r \in 1..NumRows |-> IF r <= Len(lines) THEN lines[r] ELSE <<>>]

\* late positions of a game, as the lines of the input file can give them:
\* KS / QS; the same two rows in the order NormalizeRows gives them; a lone KS
MctsGames ==
    { ParsedRows(<< <<PlayingCard(13, "S")>>, <<PlayingCard(12, "S")>> >>),
      ParsedRows(<< <<PlayingCard(12, "S")>>, <<PlayingCard(13, "S")>> >>),
      ParsedRows(<< <<PlayingCard(13, "S")>> >>) }

NoMove == [From |-> 0, To |-> 0]
NewMCTSNode(gameStateHash, parent, move) ==
    [GameStateHash |-> gameStateHash, Parent |-> parent, Move |-> move,
     Visits |-> 0, TotalReward |-> 0]

\* n.Children, as the indices of the nodes whose Parent is n
Children(nodes, n) == {c \in 1..Len(nodes) : nodes[c].Parent = n}

RECURSIVE PathToRoot(_, _)
\* a node and its ancestors
PathToRoot(nodes, n) == IF n = 0 THEN {} ELSE {n} \cup PathToRoot(nodes, nodes[n].Parent)

RECURSIVE NodeState(_, _, _)
\* currentState of runMCTS when the descent stands on node n
NodeState(nodes, rootState, n) ==
    IF nodes[n].Parent = 0 THEN rootState
    ELSE \* nextState, _ := currentState.applyMove(move); currentState.Hash()
         NormalizeRows(applyMove(NodeState(nodes, rootState, nodes[n].Parent), nodes[n].Move).g)

\* pathStates when the descent stands on node n
PathStates(nodes, rootState, n) ==
    {Hash(NodeState(nodes, rootState, a)) : a \in PathToRoot(nodes, n)}

selectChild(nodes, n) ==
    LET unvisited == {c \in Children(nodes, n) : nodes[c].Visits = 0}
    IN  IF unvisited # {} THEN unvisited ELSE Children(nodes, n)

RECURSIVE Descend(_, _)
\* the nodes the loop "for len(currentNode.Children) > 0" can end on
Descend(nodes, n) ==
    IF Children(nodes, n) = {} THEN {n}
    ELSE UNION {Descend(nodes, c) : c \in selectChild(nodes, n)}

RECURSIVE expandFrom(_, _, _, _)
expandFrom(nodes, n, gameState, i) ==
    LET legal == generateLegalMoves(gameState)
    IN  IF i > Len(legal) THEN nodes
        ELSE IF \E c \in Children(nodes, n) : nodes[c].Move = legal[i]
             THEN expandFrom(nodes, n, gameState, i + 1)
             ELSE expandFrom(Append(nodes,
                      NewMCTSNode(Hash(applyMove(gameState, legal[i]).g), n, legal[i])),
                      n, gameState, i + 1)

expand(nodes, n, gameState) == expandFrom(nodes, n, gameState, 1)

\* a driver that expands a node on its first visit
AlwaysExpand(node) == TRUE
\* if currentNode.Visits > 0
ShouldExpand(node) == node.Visits > 0

\* a backpropagation that stops at the node the rollout started from
backpropagateOne(nodes, currentNode, reward) ==
    IF currentNode = 0 THEN nodes
    ELSE [nodes EXCEPT ![currentNode].Visits = @ + 1, ![currentNode].TotalReward = @ + reward]

RECURSIVE backpropagate(_, _, _)
backpropagate(nodes, currentNode, reward) ==
    IF currentNode = 0 THEN nodes
    ELSE backpropagate([nodes EXCEPT ![currentNode].Visits = @ + 1,
                                     ![currentNode].TotalReward = @ + reward],
                       nodes[currentNode].Parent, reward)

\* a rollout that may take any legal move
anyLegalMoves(currentState, seenStates) == generateLegalMoves(currentState)
\* validMoves: the legal moves whose next state has a hash not seen
validMoves(currentState, seenStates) ==
    SelectSeq(generateLegalMoves(currentState),
              LAMBDA move : Hash(applyMove(currentState, move).g) \notin seenStates)

cardsInFoundation(g) == 52 - CountCardsInRows(g)

RECURSIVE runMonteCarloSimulation(_, _, _)
\* the rollouts the random choices can produce from moveCount on: the moves
\* applied, the states they were applied to followed by the last state, the
\* reward as a number of 52nds, and whether the move limit ended it
runMonteCarloSimulation(currentState, seenStates, moveCount) ==
    IF moveCount >= maxRolloutLength
    THEN {[moves |-> <<>>, states |-> <<currentState>>,
           reward |-> cardsInFoundation(currentState) + 1, atLimit |-> TRUE]}
    ELSE LET valid == validMoves(currentState, seenStates)
         IN  IF Len(valid) = 0
             THEN {[moves |-> <<>>, states |-> <<currentState>>,
                    reward |-> cardsInFoundation(currentState), atLimit |-> FALSE]}
             ELSE UNION {
                    LET newState == NormalizeRows(applyMove(currentState, valid[i]).g)
                    IN  {[moves |-> <<valid[i]>> \o rest.moves,
                          states |-> <<currentState>> \o rest.states,
                          reward |-> rest.reward, atLimit |-> rest.atLimit] :
                            rest \in runMonteCarloSimulation(newState,
                                        seenStates \cup {Hash(newState)}, moveCount + 1)} :
                    i \in 1..Len(valid)}

\* the moves getBestMove can return, the map being ranged over in any order:
\* the first perfect foundation move met, or else the first child met among
\* those of the highest visit count; Move{} when there is no child.  The
\* average reward is 1.0 when the rewards add up to 52 52nds per visit.
getBestMove(nodes) ==
    LET ch == Children(nodes, 1)
        perfect == {c \in ch : /\ nodes[c].Visits > 0
                               /\ nodes[c].TotalReward = 52 * nodes[c].Visits
                               /\ nodes[c].Move.To = Foundation}
        most == {c \in ch : \A d \in ch : nodes[d].Visits <= nodes[c].Visits}
    IN  IF ch = {} THEN {NoMove}
        ELSE IF perfect # {} THEN {nodes[c].Move : c \in perfect}
        ELSE {nodes[c].Move : c \in most}

NoRoll == [leaf |-> 0, from |-> 0, seen |-> {}, states |-> <<>>, moves |-> <<>>,
           reward |-> 0, atLimit |-> FALSE]

InitMcts ==
    /\ \E parsed \in MctsGames : mctsGame = parsed /\ mctsState = parsed
    /\ mctsTree = <<>> /\ mctsIter = 0 /\ mctsMoves = <<>>
    /\ mctsRoll = NoRoll /\ mctspc = "move"
    /\ IdleNext /\ IdleSolved /\ IdleStore /\ IdleCodec /\ IdlePool /\ IdleJs /\ IdlePath /\ IdleDecode /\ IdleMoves /\ IdleQueue /\ IdleSteal /\ IdleProcess /\ IdleCard /\ IdleFill /\ IdlePw

\* the head of the loop "for moveNum := 0; moveNum < 250": the root is made
\* on currentState.Hash(), which normalizes currentState
NewRoot ==
    /\ mctspc = "move" /\ Len(mctsMoves) < MoveLimit
    /\ mctsState' = NormalizeRows(mctsState)
    /\ mctsTree' = <<NewMCTSNode(Hash(mctsState), 0, NoMove)>>
    /\ mctsIter' = 0 /\ mctsRoll' = NoRoll /\ mctspc' = "iterate"
    /\ UNCHANGED <<mctsGame, mctsMoves>>
    /\ UNCHANGED <<varsNext, varsSolved, varsStore, varsCodec, varsPool, varsJs, varsPath, varsDecode, varsMoves, varsQueue, varsSteal, varsProcess, varsCard, varsFill, varsPw>>

\* one call runMCTS(currentState, rootNode)
RunMCTS ==
    /\ mctspc = "iterate" /\ mctsIter < iterationsPerMove
    /\ \E leaf \in Descend(mctsTree, 1) :
       \E leafState \in {NodeState(mctsTree, mctsState, leaf)} :
       \E grown \in {IF ShouldExpand(mctsTree[leaf])
                     THEN expand(mctsTree, leaf, leafState) ELSE mctsTree} :
       \E from \in (IF Children(grown, leaf) # {}
                    THEN selectChild(grown, leaf) ELSE {leaf}) :
       \E start \in {NodeState(grown, mctsState, from)} :
       \E pathStates \in {PathStates(grown, mctsState, from)} :
       \E roll \in runMonteCarloSimulation(start, pathStates, 0) :
          /\ mctsTree' = backpropagate(grown, from, roll.reward)
          /\ mctsRoll' = [leaf |-> leaf, from |-> from, seen |-> pathStates,
                          states |-> roll.states, moves |-> roll.moves,
                          reward |-> roll.reward, atLimit |-> roll.atLimit]
    /\ mctsIter' = mctsIter + 1
    /\ UNCHANGED <<mctsGame, mctsState, mctsMoves, mctspc>>
    /\ UNCHANGED <<varsNext, varsSolved, varsStore, varsCodec, varsPool, varsJs, varsPath, varsDecode, varsMoves, varsQueue, varsSteal, varsProcess, varsCard, varsFill, varsPw>>

\* bestMove is recorded and applied
MakeBestMove ==
    /\ mctspc = "iterate" /\ mctsIter = iterationsPerMove
    /\ \E bestMove \in getBestMove(mctsTree) \ {NoMove} :
          /\ mctsMoves' = Append(mctsMoves, bestMove)
          /\ mctsState' = applyMove(mctsState, bestMove).g
    /\ mctspc' = "move"
    /\ UNCHANGED <<mctsGame, mctsTree, mctsIter, mctsRoll>>
    /\ UNCHANGED <<varsNext, varsSolved, varsStore, varsCodec, varsPool, varsJs, varsPath, varsDecode, varsMoves, varsQueue, varsSteal, varsProcess, varsCard, varsFill, varsPw>>

\* if bestMove == (Move{}) { break }, and the game is logged
NoMoreMoves ==
    /\ mctspc = "iterate" /\ mctsIter = iterationsPerMove
    /\ NoMove \in getBestMove(mctsTree)
    /\ mctspc' = "logged"
    /\ UNCHANGED <<mctsGame, mctsState, mctsTree, mctsIter, mctsMoves, mctsRoll>>
    /\ UNCHANGED <<varsNext, varsSolved, varsStore, varsCodec, varsPool, varsJs, varsPath, varsDecode, varsMoves, varsQueue, varsSteal, varsProcess, varsCard, varsFill, varsPw>>

\* the loop ends on its move limit, and the game is logged
LogGame ==
    /\ mctspc = "move" /\ Len(mctsMoves) >= MoveLimit
    /\ mctspc' = "logged"
    /\ UNCHANGED <<mctsGame, mctsState, mctsTree, mctsIter, mctsMoves, mctsRoll>>
    /\ UNCHANGED <<varsNext, varsSolved, varsStore, varsCodec, varsPool, varsJs, varsPath, varsDecode, varsMoves, varsQueue, varsSteal, varsProcess, varsCard, varsFill, varsPw>>

NextMcts == NewRoot \/ RunMCTS \/ MakeBestMove \/ NoMoreMoves \/ LogGame
SpecMcts == InitMcts /\ [][NextMcts]_vars

RECURSIVE ReplayLegal(_, _, _)
\* the moves of logged from the i-th on are each a legal move of the state
\* applyMove has made of g so far
ReplayLegal(g, logged, i) ==
    \/ i > Len(logged)
    \/ /\ logged[i] \in Range(generateLegalMoves(g))
       /\ ReplayLegal(applyMove(g, logged[i]).g, logged, i + 1)

\* C34: the moves logged for a game, applied in order with applyMove to the
\* layout FromString parsed, are each among generateLegalMoves of the state
\* they are applied to
C34_LoggedMovesReplay == mctspc = "logged" => ReplayLegal(mctsGame, mctsMoves, 1)

RECURSIVE SumVisits(_, _)
SumVisits(nodes, set) ==
    IF set = {} THEN 0
    ELSE LET some == CHOOSE c \in set : TRUE
         IN  nodes[some].Visits + SumVisits(nodes, set \ {some})

VisitsAddUp ==
    mctsTree # <<>> =>
        /\ mctsTree[1].Visits = mctsIter
        /\ \A n \in 1..Len(mctsTree) :
              Children(mctsTree, n) # {} =>
                  mctsTree[n].Visits = 1 + SumVisits(mctsTree, Children(mctsTree, n))

VisitsOf(nodes, n) == IF n <= Len(nodes) THEN nodes[n].Visits ELSE 0

OnePerPathNode ==
    mctsIter' = mctsIter + 1 =>
        \E before \in {mctsTree}, after \in {mctsTree'}, startedAt \in {mctsRoll'.from} :
        \E visited \in {PathToRoot(after, startedAt)} :
            \A n \in 1..Len(after) :
                after[n].Visits = VisitsOf(before, n) + (IF n \in visited THEN 1 ELSE 0)

\* C35: a runMCTS call adds one visit to every node from the node the rollout
\* started at up to the root and to no other node; the root has as many
\* visits as calls were made, and a node with children has one visit more
\* than its children together
C35_VisitCounts == []VisitsAddUp /\ [][OnePerPathNode]_vars
\* a rollout has started two levels below the root
C35_Witness ==
    /\ mctsRoll.from # 0 /\ mctsTree[mctsRoll.from].Parent > 1
    /\ mctsTree[1].Visits = iterationsPerMove

\* the moves of the children of n, one entry per child
ChildMoves(nodes, n) == {nodes[c].Move : c \in Children(nodes, n)}

\* while the tree stands on currentState, that is until the move is made
ExpandedOnRevisit ==
    mctspc = "iterate" =>
    \A n \in 1..Len(mctsTree) :
        \E visits \in {mctsTree[n].Visits}, kids \in {Children(mctsTree, n)} :
        \E legal \in {generateLegalMoves(NodeState(mctsTree, mctsState, n))} :
            /\ visits <= 1 => kids = {}
            /\ visits >= 2 => /\ ChildMoves(mctsTree, n) = Range(legal)
                              /\ Cardinality(kids) = Len(legal)

ChildrenKept ==
    mctsIter' = mctsIter + 1 =>
        \E before \in {mctsTree}, after \in {mctsTree'}, reached \in {mctsRoll'.leaf} :
            /\ Len(after) >= Len(before)
            /\ \A c \in 1..Len(before) : after[c].Parent = before[c].Parent
                                         /\ after[c].Move = before[c].Move
            /\ \A c \in (Len(before) + 1)..Len(after) :
                  /\ after[c].Parent = reached
                  /\ before[reached].Visits = 1
                  /\ Children(before, reached) = {}

\* C36: a node has no children before its second visit; the call that
\* reaches it again after its first visit gives it exactly one child per
\* move of generateLegalMoves of its state; children are added to a node
\* only in that call
C36_ExpandOnce == []ExpandedOnRevisit /\ [][ChildrenKept]_vars
\* a node below the root has been expanded and has children
C36_Witness ==
    \E n \in 2..Len(mctsTree) : mctsTree[n].Visits >= 2 /\ Children(mctsTree, n) # {}

\* the hashes a rollout has seen when it stands on its i-th state: those of
\* the tree path and those of the states it entered
SeenAt(roll, i) == roll.seen \cup {Hash(roll.states[j]) : j \in 2..i}

\* no legal move of the i-th state leads to a state not yet seen
Stuck(roll, i) ==
    \A move \in Range(generateLegalMoves(roll.states[i])) :
        Hash(applyMove(roll.states[i], move).g) \in SeenAt(roll, i)

RolloutInBounds(roll) ==
    /\ Len(roll.moves) <= maxRolloutLength
    /\ Len(roll.states) = Len(roll.moves) + 1
    /\ \A i \in 1..Len(roll.moves) :
          /\ roll.moves[i] \in Range(generateLegalMoves(roll.states[i]))
          /\ applyMove(roll.states[i], roll.moves[i]).err = ""
          /\ NormalizeRows(applyMove(roll.states[i], roll.moves[i]).g) = roll.states[i + 1]
          /\ Hash(roll.states[i + 1]) \notin SeenAt(roll, i)
          /\ ~Stuck(roll, i)
    /\ Len(roll.moves) < maxRolloutLength => Stuck(roll, Len(roll.states))
    /\ roll.atLimit <=> Len(roll.moves) = maxRolloutLength

\* C37: a rollout applies at most maxRolloutLength moves, each a legal move
\* of the state it is applied to; no state it enters has a hash of the tree
\* path or of a state entered before; it ends before the limit exactly when
\* no legal move leads to an unseen state
C37_RolloutStaysFresh == mctsRoll.from # 0 => RolloutInBounds(mctsRoll)
\* a rollout that ran to the limit although a legal move led back to a seen
\* state on its way
C37_Witness ==
    /\ mctsRoll.from # 0 /\ mctsRoll.atLimit
    /\ \E i \in 1..Len(mctsRoll.moves) :
          \E move \in Range(generateLegalMoves(mctsRoll.states[i])) :
              Hash(applyMove(mctsRoll.states[i], move).g) \in SeenAt(mctsRoll, i)

\* C38: a rollout returns the reward 52/52 only when no card is left in the
\* rows at its end
C38_FullRewardMeansSolved ==
    (mctsRoll.from # 0 /\ mctsRoll.reward = 52) =>
        CountCardsInRows(Last(mctsRoll.states)) = 0

=============================================================================
